---- MODULE Spec2Model ----
(***************************************************************************)
(* Verification model of the provenance-classification core of            *)
(* ai-text-spotter: the jury arbitrator (backend/app/detectors/jury.py)    *)
(* and the semantic embedding detector with its sentence-aware chunker     *)
(* (backend/app/detectors/semantic_embedding.py).                          *)
(*                                                                         *)
(* Numbers are fixed point.  Detector scores are integers in units of     *)
(* 1/ScoreScale (1e-5), returned confidences in units of 1/ConfScale       *)
(* (1e-4, the resolution of round(x, 4)), embedding spreads in units of    *)
(* 1e-7.  Arithmetic is exact; binary floating point error of the Python   *)
(* float type is not modelled.                                             *)
(***************************************************************************)
EXTENDS Integers, Sequences, FiniteSets, TLC

VARIABLES
    juryAvailable,   \* JuryDetector._available
    semLoaded,       \* SemanticEmbeddingDetector._loaded
    semModel,        \* SemanticEmbeddingDetector.model: "None" or "model"
    call,            \* the call that has just returned, [op |-> "none"] when idle
    llmLoaded,       \* LLMDetector._loaded
    llmModel,        \* LLMDetector.model: "None" or "model"
    llmTokenizer,    \* LLMDetector.tokenizer: "None" or "tokenizer"
    pc,              \* per thread, its position in LLMDetector.load
    constructions,   \* completed AutoModelForSequenceClassification.from_pretrained
                     \* calls since the last call of unload
    created,         \* routes.py: the module globals _llm_detector, ... are not None
    llmLoadFailed    \* an /analyze request failed on LLMDetector.load, and the
                     \* model has not been loaded since

\* the state of the LLM detector, of the threads using it and of the routes
llmVars == <<llmLoaded, llmModel, llmTokenizer, pc, constructions, created, llmLoadFailed>>

vars == <<juryAvailable, semLoaded, semModel, call, llmVars>>

(***************************************************************************)
(* Python helpers                                                          *)
(***************************************************************************)

\* dict.get(key, default); a dict is a function from a set of keys
Get(d, key, default) == IF key \in DOMAIN d THEN d[key] ELSE default

EmptyDict == << >>

\* round(num/den) to the nearest integer, ties to the even neighbour (Python round)
RoundHalfEven(num, den) ==
    LET q == num \div den
        r == num % den
    IN  IF 2 * r < den THEN q
        ELSE IF 2 * r > den THEN q + 1
        ELSE IF q % 2 = 0 THEN q ELSE q + 1

\* digits kept by round(x, 4)
ConfScale == 10000
\* resolution of the modelled detector scores: one digit more than round keeps
ScoreScale == 10 * ConfScale

\* round(x, 4) of a value in 1/ScoreScale units, result in 1/ConfScale units
Round4(x) == RoundHalfEven(x, ScoreScale \div ConfScale)

\* round(x, 4) of half of a value in 1/ScoreScale units
Round4Half(x2) == RoundHalfEven(x2, 2 * (ScoreScale \div ConfScale))

\* a result that a function returned, or the exception it raised
Return(v) == [exc |-> "none", val |-> v]
Raise(e) == [exc |-> e, val |-> "none"]

(***************************************************************************)
(* JuryDetector._fallback_decision                                         *)
(***************************************************************************)

\* default of math_result.get('score', 0.5) and llm_result.get('score', 0.5)
DEFAULT_SCORE == 50000
\* avg_score > 0.6
HUMAN_THRESHOLD == 60000
\* avg_score < 0.4
AI_THRESHOLD == 40000
\* confidence of the 'suspicious' branch, 0.5, in 1/ScoreScale units
SUSPICIOUS_CONFIDENCE == 50000

\* the mutant: the upper threshold is inclusive
_fallback_decision_GeHuman(math_result, llm_result) ==
    LET sum == Get(math_result, "score", DEFAULT_SCORE) + Get(llm_result, "score", DEFAULT_SCORE)
    IN  IF sum >= 2 * HUMAN_THRESHOLD
        THEN [classification |-> "human", confidence |-> Round4Half(sum),
              reasoning |-> "Both detectors indicate human writing"]
        ELSE IF sum < 2 * AI_THRESHOLD
        THEN [classification |-> "ai", confidence |-> Round4Half(2 * ScoreScale - sum),
              reasoning |-> "Both detectors indicate AI-generated text"]
        ELSE [classification |-> "suspicious", confidence |-> Round4(SUSPICIOUS_CONFIDENCE),
              reasoning |-> "Mixed signals from detectors"]

\* the mutant: the 'ai' branch reports the average instead of its complement
_fallback_decision_AiAvg(math_result, llm_result) ==
    LET sum == Get(math_result, "score", DEFAULT_SCORE) + Get(llm_result, "score", DEFAULT_SCORE)
    IN  IF sum > 2 * HUMAN_THRESHOLD
        THEN [classification |-> "human", confidence |-> Round4Half(sum),
              reasoning |-> "Both detectors indicate human writing"]
        ELSE IF sum < 2 * AI_THRESHOLD
        THEN [classification |-> "ai", confidence |-> Round4Half(sum),
              reasoning |-> "Both detectors indicate AI-generated text"]
        ELSE [classification |-> "suspicious", confidence |-> Round4(SUSPICIOUS_CONFIDENCE),
              reasoning |-> "Mixed signals from detectors"]

\* avg_score = (math_score + llm_score) / 2 is kept as sum = 2 * avg_score
_fallback_decision(math_result, llm_result) ==
    LET math_score == Get(math_result, "score", DEFAULT_SCORE)
        llm_score == Get(llm_result, "score", DEFAULT_SCORE)
        sum == math_score + llm_score
    IN  IF sum > 2 * HUMAN_THRESHOLD
        THEN [classification |-> "human", confidence |-> Round4Half(sum),
              reasoning |-> "Both detectors indicate human writing"]
        ELSE IF sum < 2 * AI_THRESHOLD
        THEN [classification |-> "ai", confidence |-> Round4Half(2 * ScoreScale - sum),
              reasoning |-> "Both detectors indicate AI-generated text"]
        ELSE [classification |-> "suspicious", confidence |-> Round4(SUSPICIOUS_CONFIDENCE),
              reasoning |-> "Mixed signals from detectors"]

(***************************************************************************)
(* The text the external service answers with                              *)
(*                                                                         *)
(* A reply is a sequence of tokens: whitespace, the two markdown fences,   *)
(* and a body of text that json.loads either rejects or turns into a       *)
(* value.  JSON values are tagged records.                                  *)
(***************************************************************************)

WS == [t |-> "ws"]                   \* a run of whitespace
FENCE_JSON == [t |-> "fence_json"]   \* ```json
FENCE == [t |-> "fence"]             \* ```
Body(v) == [t |-> "body", v |-> v]   \* any other text

JNull == [j |-> "null"]
JStr(s) == [j |-> "str", s |-> s]
JNum(n) == [j |-> "num", n |-> n]    \* a finite number, in 1/ScoreScale units
JNaN == [j |-> "nan"]                \* the literal NaN, which json.loads accepts
JBool(b) == [j |-> "bool", b |-> b]
JArray == [j |-> "array"]
JObject(d) == [j |-> "object", d |-> d]
NotJson == [j |-> "invalid"]         \* text that is no JSON document

\* str.strip() on a token sequence
RECURSIVE LStrip(_)
LStrip(toks) ==
    IF toks # << >> /\ Head(toks).t = "ws" THEN LStrip(Tail(toks)) ELSE toks

RECURSIVE RStrip(_)
RStrip(toks) ==
    IF toks # << >> /\ toks[Len(toks)].t = "ws"
    THEN RStrip(SubSeq(toks, 1, Len(toks) - 1))
    ELSE toks

Strip(toks) == RStrip(LStrip(toks))

\* str.lower() on the strings of the model
Lower(s) ==
    CASE s = "HUMAN" -> "human"
      [] s = "Ai" -> "ai"
      [] s = "The" -> "the"
      [] s = "He" -> "he"
      [] s = "Dr" -> "dr"
      [] OTHER -> s

\* float(x) of a Python value decoded from JSON
PyFloat(v) ==
    CASE v.j = "num" -> Return([f |-> "fin", n |-> v.n])
      [] v.j = "nan" -> Return([f |-> "nan", n |-> 0])
      [] v.j = "bool" -> Return([f |-> "fin", n |-> IF v.b THEN ScoreScale ELSE 0])
      [] v.j = "str" /\ v.s = "0.7" -> Return([f |-> "fin", n |-> (7 * ScoreScale) \div 10])
      [] v.j = "str" -> Raise("ValueError")
      [] OTHER -> Raise("TypeError")

\* Python's min(a, b) and max(a, b) return b only when b < a (b > a); every
\* comparison with NaN is false
PyMin(a, b) == IF b.f = "fin" /\ b.n < a.n THEN b ELSE a
PyMax(a, b) == IF b.f = "fin" /\ b.n > a.n THEN b ELSE a

Fin(n) == [f |-> "fin", n |-> n]

\* the mutant: the confidence is passed on as it came
Clamp_None(confidence) == confidence

\* line 161: confidence = max(0.0, min(1.0, confidence))
Clamp(confidence) == PyMax(Fin(0), PyMin(Fin(ScoreScale), confidence))

(***************************************************************************)
(* JuryDetector._parse_response                                            *)
(***************************************************************************)

PARSE_FAILED ==
    [classification |-> "suspicious", confidence |-> Round4(SUSPICIOUS_CONFIDENCE),
     reasoning |-> "Failed to parse response"]

\* lines 140-147: the markdown fences are cut off
StripFences(toks) ==
    LET r0 == Strip(toks)
        r1 == IF r0 # << >> /\ Head(r0).t = "fence_json" THEN Tail(r0) ELSE r0
        r2 == IF r1 # << >> /\ Head(r1).t = "fence" THEN Tail(r1) ELSE r1
        r3 == IF r2 # << >> /\ r2[Len(r2)].t = "fence" THEN SubSeq(r2, 1, Len(r2) - 1) ELSE r2
    IN  Strip(r3)

\* json.loads: the text must be exactly one JSON document
JsonLoads(toks) ==
    IF Len(toks) = 1 /\ toks[1].t = "body" /\ toks[1].v.j # "invalid"
    THEN Return(toks[1].v)
    ELSE Raise("JSONDecodeError")

\* lines 150-167, the body of the try block; raises what the code raises
ParseBody(response) ==
    IF response.null THEN Raise("AttributeError")          \* None.strip()
    ELSE
    LET loaded == JsonLoads(StripFences(response.toks))
    IN  IF loaded.exc # "none" THEN loaded
        ELSE IF loaded.val.j # "object" THEN Raise("AttributeError")   \* data.get
        ELSE
        LET data == loaded.val.d
            rawcls == Get(data, "classification", JStr("suspicious"))
            conf == PyFloat(Get(data, "confidence", JNum(DEFAULT_SCORE)))
            rawreason == Get(data, "reasoning", JStr("No reasoning provided"))
        IN  IF rawcls.j # "str" THEN Raise("AttributeError")            \* .lower()
            ELSE IF conf.exc # "none" THEN conf
            ELSE
            LET lowered == Lower(rawcls.s)
                classification == IF lowered \in {"human", "suspicious", "ai"}
                                  THEN lowered ELSE "suspicious"
                confidence == Clamp(conf.val)
            IN  Return([classification |-> classification,
                        confidence |-> Round4(confidence.n),
                        reasoning |-> rawreason.s])

\* the except clause of lines 169-176 turns every exception into PARSE_FAILED
_parse_response(response) ==
    LET r == ParseBody(response)
    IN  IF r.exc = "none" THEN r.val ELSE PARSE_FAILED

(***************************************************************************)
(* JuryDetector._build_prompt and JuryDetector._call_groq_api              *)
(***************************************************************************)

_build_prompt(sentence, context, math_result, llm_result) ==
    [sentence |-> sentence,
     before |-> Get(context, "before", ""),
     after |-> Get(context, "after", ""),
     math_score |-> Get(math_result, "score", DEFAULT_SCORE),
     math_features |-> Get(math_result, "features", EmptyDict),
     llm_score |-> Get(llm_result, "score", DEFAULT_SCORE),
     llm_confidence |-> Get(llm_result, "confidence", 0)]

\* What the service does with one request, chosen by the environment:
\*   "connect_error", "timeout"  client.post raises
\*   "http_status"               raise_for_status raises
\*   "body_not_json"             response.json() raises
\*   "body_shape"                result['choices'][0]['message']['content'] raises
\*   "ok"                        the content of the first choice is returned
NoContent == [null |-> TRUE, toks |-> << >>]
Text(toks) == [null |-> FALSE, toks |-> toks]

_call_groq_api(prompt, outcome) ==
    CASE outcome.kind = "connect_error" -> Raise("ConnectError")
      [] outcome.kind = "timeout" -> Raise("TimeoutException")
      [] outcome.kind = "http_status" -> Raise("HTTPStatusError")
      [] outcome.kind = "body_not_json" -> Raise("JSONDecodeError")
      [] outcome.kind = "body_shape" -> Raise("KeyError")
      [] OTHER -> Return(outcome.content)

(***************************************************************************)
(* JuryDetector.decide                                                     *)
(***************************************************************************)

\* the mutant: a failed external call yields the parse-failure default
decide_NoFallback(available, sentence, context, math_result, llm_result, outcome) ==
    IF ~available
    THEN [raised |-> FALSE, apiCalls |-> 0,
          result |-> _fallback_decision(math_result, llm_result)]
    ELSE LET response == _call_groq_api(_build_prompt(sentence, context, math_result, llm_result), outcome)
         IN  [raised |-> FALSE, apiCalls |-> 1,
              result |-> IF response.exc = "none"
                         THEN _parse_response(response.val) ELSE PARSE_FAILED]

\* the mutant: a failed external call is tried once more before voting
decide_Retry(available, sentence, context, math_result, llm_result, outcome) ==
    IF ~available
    THEN [raised |-> FALSE, apiCalls |-> 0,
          result |-> _fallback_decision(math_result, llm_result)]
    ELSE LET prompt == _build_prompt(sentence, context, math_result, llm_result)
             response == _call_groq_api(prompt, outcome)
             again == _call_groq_api(prompt, outcome)
         IN  IF response.exc = "none"
             THEN [raised |-> FALSE, apiCalls |-> 1,
                   result |-> _parse_response(response.val)]
             ELSE [raised |-> FALSE, apiCalls |-> 2,
                   result |-> IF again.exc = "none"
                              THEN _parse_response(again.val)
                              ELSE _fallback_decision(math_result, llm_result)]

\* raised: an exception left decide; apiCalls: the times _call_groq_api ran
decide(available, sentence, context, math_result, llm_result, outcome) ==
    IF ~available
    THEN [raised |-> FALSE, apiCalls |-> 0,
          result |-> _fallback_decision(math_result, llm_result)]
    ELSE LET prompt == _build_prompt(sentence, context, math_result, llm_result)
             response == _call_groq_api(prompt, outcome)
         IN  IF response.exc = "none"
             THEN [raised |-> FALSE, apiCalls |-> 1,
                   result |-> _parse_response(response.val)]
             ELSE [raised |-> FALSE, apiCalls |-> 1,
                   result |-> _fallback_decision(math_result, llm_result)]

(***************************************************************************)
(* Inputs of the jury                                                      *)
(***************************************************************************)

\* scores a detector can report, in 1/ScoreScale units
ScoreSet == {0, 10000, 12345, 20000, 39999, 40000, 40001,
             59999, 60000, 60001, 70000, 80000, 90000, 100000}

FEATURES == [burstiness |-> 30000, vocabulary_richness |-> 90000]

MathResults ==
    {EmptyDict} \cup {("score" :> s) : s \in ScoreSet}
                \cup {("score" :> s) @@ ("features" :> FEATURES) : s \in {40000, 90000}}

LlmResults ==
    {EmptyDict} \cup {("score" :> s) : s \in ScoreSet}
                \cup {("score" :> s) @@ ("confidence" :> 80000) : s \in {40000, 90000}}

\* a sentence with its context; None is the string "None"
SentenceContexts ==
    { <<"s1", ("before" :> "None") @@ ("after" :> "None")>>,
      <<"s2", ("before" :> "s1") @@ ("after" :> "s3")>> }

ClassificationValues ==
    {JNull, JNum(ScoreScale), JStr("human"), JStr("HUMAN"), JStr("ai"), JStr("Ai"),
     JStr("suspicious"), JStr("robot")}

ConfidenceValues ==
    {JNull, JArray, JNaN, JBool(TRUE), JStr("0.7"), JStr("high"),
     JNum(0 - 10000), JNum(0), JNum(12345), JNum(87655), JNum(ScoreScale), JNum(170000)}

\* the JSON objects the service may answer with
ObjectDicts ==
    {EmptyDict}
    \cup {("classification" :> c) : c \in ClassificationValues}
    \cup {("confidence" :> f) : f \in ConfidenceValues}
    \cup {("classification" :> c) @@ ("confidence" :> f) :
            c \in ClassificationValues, f \in ConfidenceValues}
    \cup {("classification" :> JStr("ai")) @@ ("confidence" :> JNum(87655))
            @@ ("reasoning" :> JStr("because"))}

Bodies == {NotJson, JArray, JStr("human"), JNum(ScoreScale)} \cup {JObject(d) : d \in ObjectDicts}

\* bodies that are also sent inside markdown fences and other wrappings
WrappedBodies ==
    {NotJson,
     JObject(("classification" :> JStr("human")) @@ ("confidence" :> JNum(87655))),
     JObject(("classification" :> JStr("robot")) @@ ("confidence" :> JNum(170000)))}

Wrappings(b) ==
    { <<WS, FENCE_JSON, WS, Body(b), WS, FENCE, WS>>,
      <<FENCE, Body(b), FENCE>>,
      <<FENCE, FENCE_JSON, Body(b)>>,
      <<Body(b), WS, Body(b)>> }

Contents ==
    {NoContent, Text(<< >>)}
    \cup {Text(<<Body(b)>>) : b \in Bodies}
    \cup UNION {{Text(w) : w \in Wrappings(b)} : b \in WrappedBodies}

FailureKinds == {"connect_error", "timeout", "http_status", "body_not_json", "body_shape"}

ApiOutcomes ==
    {[kind |-> k, content |-> NoContent] : k \in FailureKinds}
    \cup {[kind |-> "ok", content |-> c] : c \in Contents}

\* no request is sent
NotCalled == [kind |-> "not_called", content |-> NoContent]

(***************************************************************************)
(* The state machine                                                       *)
(***************************************************************************)

Idle == [op |-> "none"]

\* the number of threads that use the shared LLM detector
NumThreads == 3

Threads == 1..NumThreads

\* JuryDetector.__init__: _available = bool(settings.groq_api_key);
\* SemanticEmbeddingDetector.__init__: model = None, _loaded = False;
\* LLMDetector.__init__: model = None, tokenizer = None, _loaded = False;
\* routes.py: _math_detector = _llm_detector = ... = None
Init ==
    /\ juryAvailable \in BOOLEAN
    /\ semLoaded = FALSE
    /\ semModel = "None"
    /\ call = Idle
    /\ llmLoaded = FALSE
    /\ llmModel = "None"
    /\ llmTokenizer = "None"
    /\ pc = [t \in Threads |-> "idle"]
    /\ constructions = 0
    /\ created = FALSE
    /\ llmLoadFailed = FALSE

\* one call of JuryDetector.decide
Decide ==
    /\ call.op = "none"
    /\ \E sc \in SentenceContexts, m \in MathResults, l \in LlmResults :
       \E o \in (IF juryAvailable THEN ApiOutcomes ELSE {NotCalled}) :
          call' = [op |-> "decide", sentence |-> sc[1], context |-> sc[2],
                   math_result |-> m, llm_result |-> l, outcome |-> o,
                   ret |-> decide(juryAvailable, sc[1], sc[2], m, l, o)]
    /\ UNCHANGED <<juryAvailable, semLoaded, semModel, llmVars>>

\* the caller takes the returned value
TakeResult ==
    /\ call.op # "none"
    /\ call' = Idle
    /\ UNCHANGED <<juryAvailable, semLoaded, semModel, llmVars>>

JuryNext ==
    \/ Decide
    \/ TakeResult

\* the arbitrator alone
SpecJury == Init /\ [][JuryNext]_vars

(***************************************************************************)
(* SemanticEmbeddingDetector: texts and sentences                          *)
(*                                                                         *)
(* A text is a sequence of words separated by single blanks, with or       *)
(* without blanks around it.  Only what the sentence pattern looks at is   *)
(* kept of a word: whether it starts with a capital letter and whether it  *)
(* ends with one of . ! ?                                                  *)
(***************************************************************************)

Words ==
    {[upper |-> TRUE, term |-> TRUE],      \* "Then."
     [upper |-> FALSE, term |-> TRUE],     \* "then."
     [upper |-> TRUE, term |-> FALSE]}     \* "Then"

\* the longest text given to the chunker, in words
MaxWords == 6
\* the longest text given to detect, in words
MaxDetectWords == 2
\* the largest num_chunks tried besides the default
MaxChunks == 6
\* num_chunks=50, the default of sentence_aware_chunk_encode
NUM_CHUNKS_DEFAULT == 50

SeqsUpTo(S, n) == UNION {[1..k -> S] : k \in 0..n}

PlainText(toks) == [pad |-> FALSE, toks |-> toks]
ChunkerTexts == {PlainText(t) : t \in SeqsUpTo(Words, MaxWords)}
DetectTexts == {[pad |-> p, toks |-> t] : p \in BOOLEAN, t \in SeqsUpTo(Words, MaxDetectWords)}
NumChunks == (1..MaxChunks) \cup {NUM_CHUNKS_DEFAULT}

\* not text or len(text.strip()) == 0
IsBlank(text) == text.toks = << >>

\* re.split on (?<=[.!?])\s+(?=[A-Z])|(?<=[.!?])$ , then strip and drop the
\* empty pieces: a sentence ends after word i when word i ends with a
\* terminator and word i+1 starts with a capital; cur is the sentence so far
RECURSIVE SplitFrom(_, _, _)
SplitFrom(toks, i, cur) ==
    IF i > Len(toks)
    THEN IF cur = << >> THEN << >> ELSE <<cur>>
    ELSE IF i < Len(toks) /\ toks[i].term /\ toks[i + 1].upper
         THEN <<Append(cur, toks[i])>> \o SplitFrom(toks, i + 1, << >>)
         ELSE SplitFrom(toks, i + 1, Append(cur, toks[i]))

split_into_sentences(text) == SplitFrom(text.toks, 1, << >>)

\* ' '.join(current_chunk): the words of the sentences, in order
RECURSIVE Join(_)
Join(sentences) ==
    IF sentences = << >> THEN << >> ELSE Head(sentences) \o Join(Tail(sentences))

\* one row of model.encode: the embedding of a string, or a row of zeros
Embed(string) == [zero |-> FALSE, of |-> string]
ZERO_ROW == [zero |-> TRUE, of |-> << >>]
Encode(strings) == [i \in 1..Len(strings) |-> Embed(strings[i])]

(***************************************************************************)
(* SemanticEmbeddingDetector.load, unload                                  *)
(***************************************************************************)

\* loadOk: whether SentenceTransformer(...) succeeds, chosen by the environment
load(loaded, model, loadOk) ==
    IF loaded THEN [exc |-> "none", loaded |-> loaded, model |-> model]
    ELSE IF loadOk THEN [exc |-> "none", loaded |-> TRUE, model |-> "model"]
    ELSE [exc |-> "LoadError", loaded |-> loaded, model |-> model]

unload(loaded, model) ==
    IF loaded THEN [loaded |-> FALSE, model |-> "None"]
    ELSE [loaded |-> loaded, model |-> model]

(***************************************************************************)
(* SemanticEmbeddingDetector.sentence_aware_chunk_encode                   *)
(***************************************************************************)

\* the mutant: the last chunk is not closed at the final sentence
RECURSIVE ChunkLoop_NoFinalClose(_, _, _, _, _, _)
ChunkLoop_NoFinalClose(sentences, num_chunks, i, chunks, current_chunk, sentence_count) ==
    IF i > Len(sentences) THEN chunks
    ELSE IF (sentence_count + 1) * num_chunks >= (Len(chunks) + 1) * Len(sentences)
         THEN ChunkLoop_NoFinalClose(sentences, num_chunks, i + 1,
                  Append(chunks, Join(Append(current_chunk, sentences[i]))), << >>, 0)
         ELSE ChunkLoop_NoFinalClose(sentences, num_chunks, i + 1, chunks,
                  Append(current_chunk, sentences[i]), sentence_count + 1)

\* the mutant: every sentence closes a chunk
ChunkLoop_CloseEach(sentences, num_chunks, i, chunks, current_chunk, sentence_count) ==
    [k \in 1..Len(sentences) |-> Join(<<sentences[k]>>)]

\* lines 101-111, the loop from sentence i on (1-based).  With
\* sentences_per_chunk = len(sentences) / num_chunks, the test
\* sentence_count >= (len(chunks) + 1) * sentences_per_chunk is
\* sentence_count * num_chunks >= (len(chunks) + 1) * len(sentences)
RECURSIVE ChunkLoop(_, _, _, _, _, _)
ChunkLoop(sentences, num_chunks, i, chunks, current_chunk, sentence_count) ==
    IF i > Len(sentences) THEN chunks
    ELSE LET cur == Append(current_chunk, sentences[i])
             cnt == sentence_count + 1
         IN  IF \/ cnt * num_chunks >= (Len(chunks) + 1) * Len(sentences)
                \/ i = Len(sentences)
             THEN ChunkLoop(sentences, num_chunks, i + 1, Append(chunks, Join(cur)), << >>, 0)
             ELSE ChunkLoop(sentences, num_chunks, i + 1, chunks, cur, cnt)

\* the mutant: short documents are padded with zero rows up to num_chunks
ChunkStrings_Padded(sentences, num_chunks) ==
    IF Len(sentences) < num_chunks
    THEN [chunks |-> sentences,
          rows |-> Encode(sentences) \o [i \in 1..(num_chunks - Len(sentences)) |-> ZERO_ROW]]
    ELSE LET chunks == ChunkLoop(sentences, num_chunks, 1, << >>, << >>, 0)
         IN  [chunks |-> chunks, rows |-> Encode(chunks)]

\* lines 88-116: the strings given to model.encode and the rows it returns
ChunkStrings(sentences, num_chunks) ==
    IF Len(sentences) < num_chunks
    THEN [chunks |-> sentences, rows |-> Encode(sentences)]
    ELSE LET chunks == ChunkLoop(sentences, num_chunks, 1, << >>, << >>, 0)
         IN  [chunks |-> chunks, rows |-> Encode(chunks)]

NoRows == [chunks |-> << >>, rows |-> << >>]

\* env.loadOk, env.encodeOk: whether loading the model and model.encode succeed
sentence_aware_chunk_encode(loaded, model, text, num_chunks, env) ==
    LET l == load(loaded, model, env.loadOk)
    IN  IF l.exc # "none"
        THEN [exc |-> l.exc, loaded |-> l.loaded, model |-> l.model, out |-> NoRows]
        ELSE IF ~env.encodeOk
        THEN [exc |-> "EncodeError", loaded |-> l.loaded, model |-> l.model, out |-> NoRows]
        ELSE [exc |-> "none", loaded |-> l.loaded, model |-> l.model,
              out |-> ChunkStrings(split_into_sentences(text), num_chunks)]

(***************************************************************************)
(* ai_text_classifier.py, the standalone classifier                        *)
(***************************************************************************)

\* split_into_sentences of ai_text_classifier.py: the same pattern, strip
\* and filter as SemanticEmbeddingDetector.split_into_sentences
classifier_split_into_sentences(text) == SplitFrom(text.toks, 1, << >>)

\* lines 63-92: the strings given to model.encode and the rows returned.
\* A text of fewer sentences than num_chunks is padded with rows of zeros up
\* to num_chunks; the loop of lines 77-87 is the loop of the detector
classifier_ChunkStrings(sentences, num_chunks) ==
    IF Len(sentences) < num_chunks
    THEN [chunks |-> sentences,
          rows |-> Encode(sentences) \o [i \in 1..(num_chunks - Len(sentences)) |-> ZERO_ROW]]
    ELSE LET chunks == ChunkLoop(sentences, num_chunks, 1, << >>, << >>, 0)
         IN  [chunks |-> chunks, rows |-> Encode(chunks)]

\* sentence_aware_chunk_encode(text, model, num_chunks) of the standalone
\* classifier.  env.encodeOk: whether model.encode succeeds; env.shapeOk:
\* whether model.encode([]) returns an array with two dimensions, so that
\* chunk_embeddings.shape[1] of line 67 exists for a text without sentences
classifier_sentence_aware_chunk_encode(text, num_chunks, env) ==
    LET sentences == classifier_split_into_sentences(text)
    IN  IF ~env.encodeOk
        THEN [exc |-> "EncodeError", out |-> NoRows]
        ELSE IF sentences = << >> /\ ~env.shapeOk
        THEN [exc |-> "IndexError", out |-> NoRows]
        ELSE [exc |-> "none", out |-> classifier_ChunkStrings(sentences, num_chunks)]

\* np.std(np.mean(chunk_embeddings, axis=0)) is env.std: the embedding model
\* is opaque, so any spread can come out of any rows; env.stdOk tells
\* whether np.mean and np.std succeed
compute_embedding_std(loaded, model, text, num_chunks, env) ==
    LET l == load(loaded, model, env.loadOk)
    IN  IF l.exc # "none"
        THEN [exc |-> l.exc, loaded |-> l.loaded, model |-> l.model, std |-> 0]
        ELSE LET e == sentence_aware_chunk_encode(l.loaded, l.model, text, num_chunks, env)
             IN  IF e.exc = "none" /\ ~env.stdOk
                 THEN [exc |-> "StdError", loaded |-> e.loaded, model |-> e.model, std |-> 0]
                 ELSE [exc |-> e.exc, loaded |-> e.loaded, model |-> e.model,
                       std |-> IF e.exc = "none" THEN env.std ELSE 0]

(***************************************************************************)
(* SemanticEmbeddingDetector.detect                                        *)
(*                                                                         *)
(* Spreads are in units of 1e-7; accuracies and soft scores in units of    *)
(* 1/ScoreScale.                                                           *)
(***************************************************************************)

GLOBAL_MEAN_STD_AI == 368240
GLOBAL_MEAN_STD_HUMAN == 309630
SIGMA_STD_AI == 33660
SIGMA_STD_HUMAN == 40830

UNCLASSIFIED_LOWER == GLOBAL_MEAN_STD_HUMAN + SIGMA_STD_HUMAN \div 2
UNCLASSIFIED_UPPER == GLOBAL_MEAN_STD_AI - SIGMA_STD_AI \div 2

ZONE_1_ACCURACY == 86750
ZONE_2_ACCURACY == 74650
ZONE_4_ACCURACY == 67530
ZONE_5_ACCURACY == 94860

\* 'thresholds' of the returned dict
THRESHOLDS ==
    [human_mean |-> GLOBAL_MEAN_STD_HUMAN, ai_mean |-> GLOBAL_MEAN_STD_AI,
     unclassified_lower |-> UNCLASSIFIED_LOWER, unclassified_upper |-> UNCLASSIFIED_UPPER]

Verdict(zone, classification, confidence, score) ==
    [zone |-> zone, classification |-> classification,
     confidence |-> confidence, score |-> score]

\* the mutant: a spread equal to the AI mean is put in zone 1
Classify_GeAI(std) ==
    IF std >= GLOBAL_MEAN_STD_AI THEN Verdict(1, "ai", ZONE_1_ACCURACY, 2000)
    ELSE IF UNCLASSIFIED_UPPER < std /\ std <= GLOBAL_MEAN_STD_AI
    THEN Verdict(2, "likely-ai", ZONE_2_ACCURACY, 25000)
    ELSE IF UNCLASSIFIED_LOWER <= std /\ std <= UNCLASSIFIED_UPPER
    THEN Verdict(3, "mixed", 50000, 50000)
    ELSE IF GLOBAL_MEAN_STD_HUMAN <= std /\ std < UNCLASSIFIED_LOWER
    THEN Verdict(4, "likely-human", ZONE_4_ACCURACY, 75000)
    ELSE Verdict(5, "human", ZONE_5_ACCURACY, 98000)

\* the mutant: zone 4 reports the accuracy of zone 5
Classify_Zone4Accuracy(std) ==
    IF std > GLOBAL_MEAN_STD_AI THEN Verdict(1, "ai", ZONE_1_ACCURACY, 2000)
    ELSE IF UNCLASSIFIED_UPPER < std /\ std <= GLOBAL_MEAN_STD_AI
    THEN Verdict(2, "likely-ai", ZONE_2_ACCURACY, 25000)
    ELSE IF UNCLASSIFIED_LOWER <= std /\ std <= UNCLASSIFIED_UPPER
    THEN Verdict(3, "mixed", 50000, 50000)
    ELSE IF GLOBAL_MEAN_STD_HUMAN <= std /\ std < UNCLASSIFIED_LOWER
    THEN Verdict(4, "likely-human", ZONE_5_ACCURACY, 75000)
    ELSE Verdict(5, "human", ZONE_5_ACCURACY, 98000)

\* the mutant: the soft scores of zone 2 and zone 4 are exchanged
Classify_SwappedScores(std) ==
    IF std > GLOBAL_MEAN_STD_AI THEN Verdict(1, "ai", ZONE_1_ACCURACY, 2000)
    ELSE IF UNCLASSIFIED_UPPER < std /\ std <= GLOBAL_MEAN_STD_AI
    THEN Verdict(2, "likely-ai", ZONE_2_ACCURACY, 75000)
    ELSE IF UNCLASSIFIED_LOWER <= std /\ std <= UNCLASSIFIED_UPPER
    THEN Verdict(3, "mixed", 50000, 50000)
    ELSE IF GLOBAL_MEAN_STD_HUMAN <= std /\ std < UNCLASSIFIED_LOWER
    THEN Verdict(4, "likely-human", ZONE_4_ACCURACY, 25000)
    ELSE Verdict(5, "human", ZONE_5_ACCURACY, 98000)

\* lines 167-201, the 5-zone classification
Classify(std) ==
    IF std > GLOBAL_MEAN_STD_AI
    THEN Verdict(1, "ai", ZONE_1_ACCURACY, 2000)
    ELSE IF UNCLASSIFIED_UPPER < std /\ std <= GLOBAL_MEAN_STD_AI
    THEN Verdict(2, "likely-ai", ZONE_2_ACCURACY, 25000)
    ELSE IF UNCLASSIFIED_LOWER <= std /\ std <= UNCLASSIFIED_UPPER
    THEN Verdict(3, "mixed", 50000, 50000)
    ELSE IF GLOBAL_MEAN_STD_HUMAN <= std /\ std < UNCLASSIFIED_LOWER
    THEN Verdict(4, "likely-human", ZONE_4_ACCURACY, 75000)
    ELSE Verdict(5, "human", ZONE_5_ACCURACY, 98000)

\* the dict returned for a blank text and the dict returned on an exception
NoVerdict(classification) ==
    [score |-> Round4(50000), confidence |-> 0, std |-> 0,
     classification |-> classification, zone |-> 0]

\* the mutant: the test for a blank text comes after the spread computation
detect_BlankLast(loaded, model, text, env) ==
    LET c == compute_embedding_std(loaded, model, text, NUM_CHUNKS_DEFAULT, env)
    IN  IF c.exc # "none"
        THEN [ret |-> NoVerdict("error"), computed |-> FALSE, caught |-> c.exc,
              loaded |-> c.loaded, model |-> c.model]
        ELSE [ret |-> NoVerdict("unknown"), computed |-> FALSE, caught |-> "none",
              loaded |-> c.loaded, model |-> c.model]

\* ret is the returned dict; computed tells whether the spread was computed
\* and caught which exception the except clause caught
detect(loaded, model, text, env) ==
    IF IsBlank(text)
    THEN [ret |-> NoVerdict("unknown"), computed |-> FALSE, caught |-> "none",
          loaded |-> loaded, model |-> model]
    ELSE LET c == compute_embedding_std(loaded, model, text, NUM_CHUNKS_DEFAULT, env)
             v == Classify(c.std)
         IN  IF c.exc # "none"
             THEN [ret |-> NoVerdict("error"), computed |-> FALSE, caught |-> c.exc,
                   loaded |-> c.loaded, model |-> c.model]
             ELSE [ret |-> [score |-> Round4(v.score), confidence |-> Round4(v.confidence),
                            std |-> RoundHalfEven(c.std, 10),
                            classification |-> v.classification, zone |-> v.zone,
                            thresholds |-> THRESHOLDS],
                   computed |-> TRUE, caught |-> "none",
                   loaded |-> c.loaded, model |-> c.model]

(***************************************************************************)
(* Inputs of the semantic detector                                         *)
(***************************************************************************)

\* how far around each zone boundary the spreads are tried, in 1e-7
SpreadDelta == 1

Boundaries ==
    {GLOBAL_MEAN_STD_HUMAN, UNCLASSIFIED_LOWER, UNCLASSIFIED_UPPER, GLOBAL_MEAN_STD_AI}

SpreadSet ==
    {0, 250005, 320000, 340000, 360000, 500000}
    \cup {b + d : b \in Boundaries, d \in (0 - SpreadDelta)..SpreadDelta}

\* what the environment does during one call: the model loads or not,
\* model.encode succeeds or not, and the spread that comes out
Envs == [loadOk : BOOLEAN, encodeOk : BOOLEAN, stdOk : BOOLEAN, std : SpreadSet]
EnvsNoStd == [loadOk : BOOLEAN, encodeOk : BOOLEAN, stdOk : {TRUE}, std : {0}]

(***************************************************************************)
(* The state machine of the semantic detector                              *)
(***************************************************************************)

\* SemanticEmbeddingDetector.load
SemLoad ==
    /\ call.op = "none"
    /\ \E loadOk \in BOOLEAN :
          LET l == load(semLoaded, semModel, loadOk)
          IN  /\ semLoaded' = l.loaded
              /\ semModel' = l.model
              /\ call' = [op |-> "load", raised |-> l.exc # "none"]
    /\ UNCHANGED <<juryAvailable, llmVars>>

\* SemanticEmbeddingDetector.unload
SemUnload ==
    /\ call.op = "none"
    /\ semLoaded' = unload(semLoaded, semModel).loaded
    /\ semModel' = unload(semLoaded, semModel).model
    /\ call' = [op |-> "unload"]
    /\ UNCHANGED <<juryAvailable, llmVars>>

\* SemanticEmbeddingDetector.sentence_aware_chunk_encode
SemChunkEncode ==
    /\ call.op = "none"
    /\ \E text \in ChunkerTexts, num_chunks \in NumChunks, env \in EnvsNoStd :
          LET r == sentence_aware_chunk_encode(semLoaded, semModel, text, num_chunks, env)
          IN  /\ semLoaded' = r.loaded
              /\ semModel' = r.model
              /\ call' = [op |-> "chunk_encode", text |-> text, num_chunks |-> num_chunks,
                          raised |-> r.exc # "none",
                          chunks |-> r.out.chunks, rows |-> r.out.rows]
    /\ UNCHANGED <<juryAvailable, llmVars>>

\* what the environment does during one call of the standalone function
ClassifierEnvs == [encodeOk : BOOLEAN, shapeOk : BOOLEAN]

\* sentence_aware_chunk_encode of ai_text_classifier.py, with a loaded model
ClassifierChunkEncode ==
    /\ call.op = "none"
    /\ \E text \in ChunkerTexts, num_chunks \in NumChunks, env \in ClassifierEnvs :
          LET r == classifier_sentence_aware_chunk_encode(text, num_chunks, env)
          IN  call' = [op |-> "classifier_chunk_encode", text |-> text,
                       num_chunks |-> num_chunks, raised |-> r.exc # "none",
                       chunks |-> r.out.chunks, rows |-> r.out.rows]
    /\ UNCHANGED <<juryAvailable, semLoaded, semModel, llmVars>>

\* SemanticEmbeddingDetector.detect
SemDetect ==
    /\ call.op = "none"
    /\ \E text \in DetectTexts, env \in Envs :
          LET r == detect(semLoaded, semModel, text, env)
          IN  /\ semLoaded' = r.loaded
              /\ semModel' = r.model
              /\ call' = [op |-> "detect", text |-> text,
                          std |-> IF r.computed THEN env.std ELSE 0,
                          computed |-> r.computed, caught |-> r.caught,
                          loadedBefore |-> semLoaded, ret |-> r.ret]
    /\ UNCHANGED <<juryAvailable, llmVars>>

SemNext ==
    \/ SemLoad
    \/ SemUnload
    \/ SemChunkEncode
    \/ ClassifierChunkEncode
    \/ SemDetect
    \/ TakeResult

\* the semantic embedding detector alone
SpecSemantic == Init /\ [][SemNext]_vars

(***************************************************************************)
(* LLMDetector.load called by several threads                              *)
(*                                                                         *)
(* load() takes no lock: the test of _loaded, the two from_pretrained      *)
(* calls and the assignment of _loaded are separate steps, and a thread    *)
(* switch can happen between any two of them.                              *)
(***************************************************************************)

\* the constructions of the model that are followed
MaxConstructions == 3

\* load(): "if self._loaded: return", else enter the try block
LoadCheck(t) ==
    /\ pc[t] = "idle"
    /\ pc' = [pc EXCEPT ![t] = IF llmLoaded THEN "returned" ELSE "tokenizer"]
    /\ UNCHANGED <<llmLoaded, llmModel, llmTokenizer, constructions>>

\* self.tokenizer = AutoTokenizer.from_pretrained(...), which may raise
LoadTokenizer(t) ==
    /\ pc[t] = "tokenizer"
    /\ \E ok \in BOOLEAN :
          IF ok
          THEN /\ llmTokenizer' = "tokenizer"
               /\ pc' = [pc EXCEPT ![t] = "model"]
          ELSE /\ pc' = [pc EXCEPT ![t] = "raised"]
               /\ UNCHANGED llmTokenizer
    /\ UNCHANGED <<llmLoaded, llmModel, constructions>>

\* self.model = AutoModelForSequenceClassification.from_pretrained(...),
\* which may raise
LoadModel(t) ==
    /\ pc[t] = "model"
    /\ \E ok \in BOOLEAN :
          IF ok
          THEN /\ constructions < MaxConstructions
               /\ llmModel' = "model"
               /\ constructions' = constructions + 1
               /\ pc' = [pc EXCEPT ![t] = "flag"]
          ELSE /\ pc' = [pc EXCEPT ![t] = "raised"]
               /\ UNCHANGED <<llmModel, constructions>>
    /\ UNCHANGED <<llmLoaded, llmTokenizer>>

\* model.to(device) and model.eval(), which may raise; then
\* self._loaded = True, and load() returns
LoadSetLoaded(t) ==
    /\ pc[t] = "flag"
    /\ \E ok \in BOOLEAN :
          IF ok
          THEN /\ llmLoaded' = TRUE
               /\ pc' = [pc EXCEPT ![t] = "returned"]
          ELSE /\ pc' = [pc EXCEPT ![t] = "raised"]
               /\ UNCHANGED llmLoaded
    /\ UNCHANGED <<llmModel, llmTokenizer, constructions>>

\* the caller of load() goes on; it may call load() again later
LoadExit(t) ==
    /\ pc[t] \in {"returned", "raised"}
    /\ pc' = [pc EXCEPT ![t] = "idle"]
    /\ UNCHANGED <<llmLoaded, llmModel, llmTokenizer, constructions>>

LoadNext ==
    \/ \E t \in Threads : LoadCheck(t) /\ UNCHANGED <<juryAvailable, semLoaded, semModel, call, created, llmLoadFailed>>
    \/ \E t \in Threads : LoadTokenizer(t) /\ UNCHANGED <<juryAvailable, semLoaded, semModel, call, created, llmLoadFailed>>
    \/ \E t \in Threads : LoadModel(t) /\ UNCHANGED <<juryAvailable, semLoaded, semModel, call, created, llmLoadFailed>>
    \/ \E t \in Threads : LoadSetLoaded(t) /\ UNCHANGED <<juryAvailable, semLoaded, semModel, call, created, llmLoadFailed>>
    \/ \E t \in Threads : LoadExit(t) /\ UNCHANGED <<juryAvailable, semLoaded, semModel, call, created, llmLoadFailed>>

\* the LLM detector shared by NumThreads threads
SpecLoad == Init /\ [][LoadNext]_vars

(***************************************************************************)
(* MathematicalDetector: sentences                                         *)
(*                                                                         *)
(* A sentence is a sequence of items, a word or a punctuation character.   *)
(* In the string every word but a leading one is preceded by one space and *)
(* a punctuation character follows the item before it directly; pad        *)
(* counts the blanks around the items.  Feature values are integers in     *)
(* units of 1/MicroScale (1e-6).                                           *)
(***************************************************************************)

\* resolution of the feature values before round(x, 4)
MicroScale == 100 * ConfScale

Word(s) == [k |-> "w", s |-> s]
Punct(s) == [k |-> "p", s |-> s]

\* the value 0.5 returned for degenerate input
NEUTRAL == MicroScale \div 2

\* _load_common_words: the list the frequency ranks are taken from
common ==
    <<"the", "be", "to", "of", "and", "a", "in", "that", "have", "i",
      "it", "for", "not", "on", "with", "he", "as", "you", "do", "at",
      "this", "but", "his", "by", "from", "they", "we", "say", "her", "she",
      "or", "an", "will", "my", "one", "all", "would", "there", "their", "what",
      "so", "up", "out", "if", "about", "who", "get", "which", "go", "me",
      "when", "make", "can", "like", "time", "no", "just", "him", "know", "take",
      "people", "into", "year", "your", "good", "some", "could", "them", "see", "other",
      "than", "then", "now", "look", "only", "come", "its", "over", "think", "also",
      "back", "after", "use", "two", "how", "our", "work", "first", "well", "way",
      "even", "new", "want", "because", "any", "these", "give", "day", "most", "us">>

\* {word: i + 1 for i, word in enumerate(common)}
common_words ==
    [w \in {common[i] : i \in 1..Len(common)} |->
        CHOOSE i \in 1..Len(common) : common[i] = w]

RECURSIVE Sum(_)
Sum(seq) == IF seq = << >> THEN 0 ELSE Head(seq) + Sum(Tail(seq))

Abs(x) == IF x < 0 THEN 0 - x ELSE x
Min(a, b) == IF b < a THEN b ELSE a
Max(a, b) == IF b > a THEN b ELSE a

\* len(sentence)
Chars(sentence) ==
    sentence.pad
    + Sum([i \in 1..Len(sentence.items) |-> Len(sentence.items[i].s)])
    + Cardinality({i \in 2..Len(sentence.items) : sentence.items[i].k = "w"})

\* not sentence or len(sentence.strip()) == 0
Blank(sentence) == sentence.items = << >>

IsWord(item) == item.k = "w"

\* re.findall(r'\b\w+\b', text.lower())
_tokenize_words(sentence) ==
    LET ws == SelectSeq(sentence.items, IsWord)
    IN  [i \in 1..Len(ws) |-> Lower(ws[i].s)]

\* math.log2 of a whole number, in 1/MicroScale units
Log2 ==
    (1 :> 0) @@ (2 :> 1000000) @@ (3 :> 1584963) @@ (4 :> 2000000)
    @@ (5 :> 2321928) @@ (6 :> 2584963) @@ (7 :> 2807355) @@ (8 :> 3000000)
    @@ (9 :> 3169925) @@ (10 :> 3321928) @@ (11 :> 3459432) @@ (12 :> 3584963)
    @@ (41 :> 5357552)

(***************************************************************************)
(* MathematicalDetector: the six features                                  *)
(***************************************************************************)

\* the mutant: the normalised variance is not capped
_calculate_burstiness_NoCap(sentence) ==
    LET words == _tokenize_words(sentence)
        n == Len(words)
        s1 == Sum([i \in 1..n |-> Len(words[i])])
        s2 == Sum([i \in 1..n |-> Len(words[i]) * Len(words[i])])
    IN  IF n < 2 THEN NEUTRAL
        ELSE (((n * s2 - s1 * s1) * (MicroScale \div 2000)) \div (n * n)) * 100

\* variance of the word lengths, n * s2 - s1^2 being n^2 times the variance;
\* min(variance / 20.0, 1.0)
_calculate_burstiness(sentence) ==
    LET words == _tokenize_words(sentence)
        n == Len(words)
        s1 == Sum([i \in 1..n |-> Len(words[i])])
        s2 == Sum([i \in 1..n |-> Len(words[i]) * Len(words[i])])
    IN  IF n < 2 THEN NEUTRAL
        ELSE IF n * s2 - s1 * s1 >= 20 * n * n THEN MicroScale
        ELSE ((n * s2 - s1 * s1) * (MicroScale \div 20)) \div (n * n)

\* unique words / total words
_calculate_vocabulary_richness(sentence) ==
    LET words == _tokenize_words(sentence)
        n == Len(words)
    IN  IF n = 0 THEN NEUTRAL
        ELSE (Cardinality({words[i] : i \in 1..n}) * MicroScale) \div n

\* lines 173-180: the score of one word, 1.0 - rank / 100.0 for a word of
\* the table and 1.0 for any other word
WordScore(word_lower) ==
    IF word_lower \in DOMAIN common_words
    THEN MicroScale - common_words[word_lower] * (MicroScale \div 100)
    ELSE MicroScale

\* the list scores of lines 170-180
WordScores(sentence) ==
    LET words == _tokenize_words(sentence)
    IN  [i \in 1..Len(words) |-> WordScore(words[i])]

\* 1.0 - abs(avg_score - 0.5) * 2 of the per-word scores 1.0 - rank / 100.0
_calculate_word_frequency(sentence) ==
    LET words == _tokenize_words(sentence)
        n == Len(words)
        scores == WordScores(sentence)
        avg_score == Sum(scores) \div n
    IN  IF n = 0 THEN NEUTRAL
        ELSE MicroScale - Abs(avg_score - MicroScale \div 2) * 2

\* the ASCII characters matched by the class [.,!?;:\-...] of line 198
PUNCTUATION_MARKS == {".", ",", "!", "?", ";", ":", "-"}

IsMark(item) == item.k = "p" /\ item.s \in PUNCTUATION_MARKS

\* density_score * 0.7 + variety_score * 0.3
_calculate_punctuation_score(sentence) ==
    LET punctuation_marks == SelectSeq(sentence.items, IsMark)
        total_chars == Chars(sentence)
        punct_density == (Len(punctuation_marks) * MicroScale) \div total_chars
        unique_puncts == Cardinality({punctuation_marks[i].s : i \in 1..Len(punctuation_marks)})
        density_score == MicroScale - Min(Abs(punct_density - MicroScale \div 10) * 10, MicroScale)
        variety_score == Min((unique_puncts * MicroScale) \div 3, MicroScale)
    IN  IF total_chars = 0 THEN NEUTRAL
        ELSE (density_score * 7 + variety_score * 3) \div 10

\* matches of [,;]|\band\b|\bbut\b|\bor\b|\bif\b|\bwhen\b in sentence.lower()
IsClauseIndicator(item) ==
    \/ item.k = "p" /\ item.s \in {",", ";"}
    \/ item.k = "w" /\ Lower(item.s) \in {"and", "but", "or", "if", "when"}

\* length_score * 0.6 + clause_score * 0.4
_calculate_complexity(sentence) ==
    LET words == _tokenize_words(sentence)
        words_per_sentence == Len(words)
        clause_indicators == Len(SelectSeq(sentence.items, IsClauseIndicator))
        length_score == MicroScale - Min((Abs(words_per_sentence - 20) * MicroScale) \div 20, MicroScale)
        clause_density == (clause_indicators * MicroScale) \div Max(words_per_sentence, 1)
        clause_score == MicroScale - Min((Abs(clause_density - 150000) * 20) \div 3, MicroScale)
    IN  IF words_per_sentence = 0 THEN NEUTRAL
        ELSE (length_score * 6 + clause_score * 4) \div 10

RECURSIVE SumOver(_, _)
SumOver(S, f) ==
    IF S = {} THEN 0
    ELSE LET x == CHOOSE x \in S : TRUE IN f[x] + SumOver(S \ {x}, f)

\* Shannon entropy of the word lengths: the sum over the lengths of
\* -p * log2(p) with p = count / total; min(entropy / 3.5, 1.0)
_calculate_entropy(sentence) ==
    LET words == _tokenize_words(sentence)
        total == Len(words)
        lengths == {Len(words[i]) : i \in 1..total}
        length_counts == [l \in lengths |-> Cardinality({i \in 1..total : Len(words[i]) = l})]
        term == [l \in lengths |-> (length_counts[l] * (Log2[total] - Log2[length_counts[l]])) \div total]
        entropy == SumOver(lengths, term)
    IN  IF total < 2 THEN NEUTRAL
        ELSE Min((entropy * 2) \div 7, MicroScale)

FEATURE_NAMES == {"burstiness", "vocabulary_richness", "word_frequency",
                  "punctuation", "complexity", "entropy"}

\* the six features of a sentence as detect computes them, before rounding
Features(sentence) ==
    [burstiness |-> _calculate_burstiness(sentence),
     vocabulary_richness |-> _calculate_vocabulary_richness(sentence),
     word_frequency |-> _calculate_word_frequency(sentence),
     punctuation |-> _calculate_punctuation_score(sentence),
     complexity |-> _calculate_complexity(sentence),
     entropy |-> _calculate_entropy(sentence)]

(***************************************************************************)
(* MathematicalDetector.detect                                             *)
(***************************************************************************)

\* round(x, 4) of a value in 1/MicroScale units, result in 1/ConfScale units
Round4Micro(x) == RoundHalfEven(x, MicroScale \div ConfScale)

\* the weights of the features in raw_score, in hundredths
WEIGHTS ==
    [burstiness |-> 10, vocabulary_richness |-> 25, word_frequency |-> 20,
     punctuation |-> 20, complexity |-> 10, entropy |-> 15]

\* the negative bias 0.03 subtracted from raw_score, in 1/MicroScale units
BIAS == 30000

\* raw_score: the weighted sum of the features
RawScore(f) == SumOver(FEATURE_NAMES, [n \in FEATURE_NAMES |-> f[n] * WEIGHTS[n]]) \div 100

\* the dict returned for an empty sentence
NEUTRAL_RESULT ==
    [score |-> Round4Micro(NEUTRAL),
     features |-> [n \in FEATURE_NAMES |-> Round4Micro(NEUTRAL)]]

\* the mutant: the bias is subtracted from the neutral score as well
MathematicalDetector_detect_BiasedNeutral(sentence) ==
    LET f == Features(sentence)
    IN  IF Blank(sentence)
        THEN [NEUTRAL_RESULT EXCEPT !.score = Round4Micro(Max(NEUTRAL - BIAS, 0))]
        ELSE [score |-> Round4Micro(Max(RawScore(f) - BIAS, 0)),
              features |-> [n \in FEATURE_NAMES |-> Round4Micro(f[n])]]

\* the mutant: the earlier bias of 0.10 is subtracted
MathematicalDetector_detect_Bias10(sentence) ==
    LET f == Features(sentence)
    IN  IF Blank(sentence) THEN NEUTRAL_RESULT
        ELSE [score |-> Round4Micro(Max(RawScore(f) - 100000, 0)),
              features |-> [n \in FEATURE_NAMES |-> Round4Micro(f[n])]]

\* detect: score and features, in 1/ConfScale units
MathematicalDetector_detect(sentence) ==
    LET f == Features(sentence)
    IN  IF Blank(sentence) THEN NEUTRAL_RESULT
        ELSE [score |-> Round4Micro(Max(RawScore(f) - BIAS, 0)),
              features |-> [n \in FEATURE_NAMES |-> Round4Micro(f[n])]]

(***************************************************************************)
(* Inputs of the mathematical detector                                     *)
(***************************************************************************)

\* the longest sentence enumerated, in items
MaxItems == 4

Items ==
    {Word("the"), Word("The"), Word("and"), Word("us"), Word("internationalization"),
     Punct(","), Punct("."), Punct("!")}

\* a sentence of 41 equal words, and one of 12 words of 12 different lengths
LongSentences ==
    {[pad |-> 0, items |-> [i \in 1..41 |-> Word("the")]],
     [pad |-> 0, items |-> <<Word("a"), Word("be"), Word("the"), Word("that"),
                             Word("about"), Word("people"), Word("because"),
                             Word("sentence"), Word("detection"), Word("burstiness"),
                             Word("punctuation"), Word("mathematical"), Punct(".")>>]}

MathSentences ==
    {[pad |-> 0, items |-> i] : i \in SeqsUpTo(Items, MaxItems)}
    \cup {[pad |-> 2, items |-> i] : i \in SeqsUpTo(Items, 1)}
    \cup LongSentences

\* one call of MathematicalDetector.detect; computed holds the features
\* before rounding
MathDetect ==
    /\ call.op = "none"
    /\ \E s \in MathSentences :
          call' = [op |-> "math_detect", sentence |-> s,
                   computed |-> IF Blank(s) THEN << >> ELSE Features(s),
                   words |-> _tokenize_words(s),
                   word_scores |-> IF Blank(s) THEN << >> ELSE WordScores(s),
                   ret |-> MathematicalDetector_detect(s)]
    /\ UNCHANGED <<juryAvailable, semLoaded, semModel, llmVars>>

MathNext ==
    \/ MathDetect
    \/ TakeResult

\* the mathematical detector alone
SpecMath == Init /\ [][MathNext]_vars

(***************************************************************************)
(* TextProcessor.split_into_sentences                                      *)
(*                                                                         *)
(* A text is a sequence of words separated by whitespace.  A word has a    *)
(* base in lower case, a flag cap telling whether its first letter is a    *)
(* capital, and an ending: nothing, a terminator, or the characters        *)
(* "<ABR>".  ws tells whether the words are separated by single spaces or  *)
(* by runs of blanks and newlines that also surround the text.             *)
(***************************************************************************)

Tok(base, cap, end) == [base |-> base, cap |-> cap, end |-> end]

\* self.abbreviations
abbreviations ==
    {"mr", "mrs", "ms", "dr", "prof", "sr", "jr", "vs", "etc", "inc", "ltd",
     "corp", "co", "st", "ave", "blvd", "dept", "univ", "jan", "feb", "mar",
     "apr", "jun", "jul", "aug", "sep", "oct", "nov", "dec", "mon",
     "tue", "wed", "thu", "fri", "sat", "sun", "no", "vol", "fig", "ed",
     "est", "approx"}

\* the characters of the lookbehind (?<=[.!?])
TERMINATORS == {".", "!", "?"}

\* the placeholder put in place of the period of an abbreviation
ABR == "<ABR>"

\* re.sub(r'\s+', ' ', text).strip()
NormaliseWhitespace(text) == [ws |-> "single", toks |-> text.toks]

\* pattern.sub(abbr + '<ABR>', protected) for every abbreviation: a match of
\* \b abbr \. in any letter case is replaced by the abbreviation as listed,
\* in lower case, followed by the placeholder
_protect_abbreviations(toks) ==
    [i \in 1..Len(toks) |->
        IF toks[i].base \in abbreviations /\ toks[i].end = "."
        THEN Tok(toks[i].base, FALSE, ABR)
        ELSE toks[i]]

\* text.replace('<ABR>', '.')
_restore_abbreviations(toks) ==
    [i \in 1..Len(toks) |->
        IF toks[i].end = ABR THEN Tok(toks[i].base, toks[i].cap, ".") ELSE toks[i]]

\* re.split(r'(?<=[.!?])\s+(?=[A-Z])|(?<=[.!?])$', protected_text): the
\* pieces between the matches, an empty last piece after a final terminator
RECURSIVE ReSplit(_, _, _)
ReSplit(toks, i, cur) ==
    IF i > Len(toks) THEN <<cur>>
    ELSE IF toks[i].end \in TERMINATORS /\ i < Len(toks) /\ toks[i + 1].cap
         THEN <<Append(cur, toks[i])>> \o ReSplit(toks, i + 1, << >>)
    ELSE IF toks[i].end \in TERMINATORS /\ i = Len(toks)
         THEN <<Append(cur, toks[i]), << >> >>
         ELSE ReSplit(toks, i + 1, Append(cur, toks[i]))

NotEmpty(s) == s # << >>

\* [self._restore_abbreviations(s.strip()) for s in sentences if s.strip()]
RestoredPieces(text) ==
    LET protected_text == _protect_abbreviations(NormaliseWhitespace(text).toks)
        sentences == SelectSeq(ReSplit(protected_text, 1, << >>), NotEmpty)
    IN  [i \in 1..Len(sentences) |-> _restore_abbreviations(sentences[i])]

\* len(s.split()) >= 3
LongEnough(s) == Len(s) >= 3

\* the mutant: the pieces of re.split are returned as they are, an empty
\* text giving one empty piece
TextProcessor_split_into_sentences_Unfiltered(text) ==
    LET protected_text == _protect_abbreviations(NormaliseWhitespace(text).toks)
        sentences == ReSplit(protected_text, 1, << >>)
    IN  Return([i \in 1..Len(sentences) |-> _restore_abbreviations(sentences[i])])

\* split_into_sentences of TextProcessor: the list returned
TextProcessor_split_into_sentences(text) ==
    IF text.toks = << >> THEN Return(<< >>)
    ELSE Return(SelectSeq(RestoredPieces(text), LongEnough))

\* ' '.join(sentences), a text again
JoinSentences(sentences) == [ws |-> "single", toks |-> Join(sentences)]

(***************************************************************************)
(* Inputs of the text processor                                            *)
(***************************************************************************)

\* the longest text segmented, in words
MaxTextWords == 6

\* "he", "he.", "He!", "Dr." and "he<ABR>"
TextTokens ==
    {Tok("he", FALSE, ""), Tok("he", FALSE, "."), Tok("he", TRUE, "!"),
     Tok("dr", TRUE, "."), Tok("he", FALSE, ABR)}

SplitTexts ==
    {[ws |-> w, toks |-> t] : w \in {"single", "runs"}, t \in SeqsUpTo(TextTokens, MaxTextWords)}

\* one call of TextProcessor.split_into_sentences; pieces holds the list
\* of line 56, before the sentences of fewer than 3 words are dropped
SplitText ==
    /\ call.op = "none"
    /\ \E text \in SplitTexts :
          call' = [op |-> "split", text |-> text,
                   pieces |-> RestoredPieces(text),
                   ret |-> TextProcessor_split_into_sentences(text)]
    /\ UNCHANGED <<juryAvailable, semLoaded, semModel, llmVars>>

\* extract_context without the test index > 0: sentences[index - 1] at
\* index 0 is sentences[-1], the last sentence
extract_context_Wrap(sentences, index) ==
    ("before" :> IF index > 0 THEN sentences[index] ELSE sentences[Len(sentences)])
    @@ ("after" :> IF index < Len(sentences) - 1 THEN sentences[index + 2] ELSE "None")

\* TextProcessor.extract_context; index counts from 0, None is "None"
extract_context(sentences, index) ==
    ("before" :> IF index > 0 THEN sentences[index] ELSE "None")
    @@ ("after" :> IF index < Len(sentences) - 1 THEN sentences[index + 2] ELSE "None")

\* the longest sentence list passed to extract_context
MaxContextSentences == 3

\* sentence lists, with repeated sentences
ContextLists == SeqsUpTo({"s1", "s2", "s3"}, MaxContextSentences) \ {<< >>}

\* one call of TextProcessor.extract_context with a valid index
ExtractContext ==
    /\ call.op = "none"
    /\ \E sentences \in ContextLists :
       \E index \in 0..(Len(sentences) - 1) :
          call' = [op |-> "extract_context", sentences |-> sentences, index |-> index,
                   ret |-> extract_context(sentences, index)]
    /\ UNCHANGED <<juryAvailable, semLoaded, semModel, llmVars>>

TextNext ==
    \/ SplitText
    \/ ExtractContext
    \/ TakeResult

\* the text processor alone
SpecText == Init /\ [][TextNext]_vars

(***************************************************************************)
(* LLMDetector used by one caller at a time                                *)
(*                                                                         *)
(* st holds the fields _loaded, model and tokenizer.  env tells what the   *)
(* environment does during the call: whether the two from_pretrained       *)
(* calls succeed, whether model.to(device) and model.eval() succeed,       *)
(* whether inference succeeds and the human probability it gives, in       *)
(* 1/ScoreScale units.                                                     *)
(***************************************************************************)

LlmState == [loaded |-> llmLoaded, model |-> llmModel, tokenizer |-> llmTokenizer]

\* the mutant: the test of _loaded is missing
LLMDetector_load_NoTest(st, env) ==
    IF ~env.tokOk
    THEN [exc |-> "LoadError", st |-> st, constructed |-> 0]
    ELSE IF ~env.modelOk
    THEN [exc |-> "LoadError", st |-> [st EXCEPT !.tokenizer = "tokenizer"], constructed |-> 0]
    ELSE IF ~env.moveOk
    THEN [exc |-> "LoadError", constructed |-> 1,
          st |-> [st EXCEPT !.tokenizer = "tokenizer", !.model = "model"]]
    ELSE [exc |-> "none", constructed |-> 1,
          st |-> [loaded |-> TRUE, model |-> "model", tokenizer |-> "tokenizer"]]

\* load: LoadCheck, LoadTokenizer, LoadModel and LoadSetLoaded in one go;
\* constructed counts the models built by the call
LLMDetector_load(st, env) ==
    IF st.loaded
    THEN [exc |-> "none", st |-> st, constructed |-> 0]
    ELSE IF ~env.tokOk
    THEN [exc |-> "LoadError", st |-> st, constructed |-> 0]
    ELSE IF ~env.modelOk
    THEN [exc |-> "LoadError", st |-> [st EXCEPT !.tokenizer = "tokenizer"], constructed |-> 0]
    ELSE IF ~env.moveOk
    THEN [exc |-> "LoadError", constructed |-> 1,
          st |-> [st EXCEPT !.tokenizer = "tokenizer", !.model = "model"]]
    ELSE [exc |-> "none", constructed |-> 1,
          st |-> [loaded |-> TRUE, model |-> "model", tokenizer |-> "tokenizer"]]

\* is_loaded
LLMDetector_is_loaded(st) == st.loaded

\* unload
LLMDetector_unload(st) ==
    IF st.loaded
    THEN [loaded |-> FALSE, model |-> "None", tokenizer |-> "None"]
    ELSE st

\* the dict returned for a blank sentence and on an inference error,
\* in 1/ConfScale units
LLM_NEUTRAL == ("score" :> Round4(ScoreScale \div 2)) @@ ("confidence" :> 0)

\* detect: load() is called outside the try block, so its exception leaves
\* detect; an exception of the inference gives the neutral dict
LLMDetector_detect(st, sentence, env) ==
    LET l == IF st.loaded THEN [exc |-> "none", st |-> st, constructed |-> 0]
             ELSE LLMDetector_load(st, env)
        human_prob == env.human_prob
        ai_prob == ScoreScale - human_prob
        calibrated_score == Max(human_prob - (3 * ScoreScale) \div 100, 0)
        confidence == (Max(ai_prob, human_prob) * 7) \div 10
    IN  IF l.exc # "none"
        THEN [exc |-> l.exc, st |-> l.st, constructed |-> l.constructed, ret |-> EmptyDict]
        ELSE [exc |-> "none", st |-> l.st, constructed |-> l.constructed,
              ret |-> IF sentence = << >> \/ ~env.inferOk THEN LLM_NEUTRAL
                      ELSE ("score" :> Round4(calibrated_score))
                           @@ ("confidence" :> Round4(confidence))]

\* the human probabilities the model gives, in 1/ScoreScale units
HumanProbs == {2000, 50000, 90000}

LlmEnvs ==
    [tokOk : BOOLEAN, modelOk : BOOLEAN, moveOk : BOOLEAN, inferOk : BOOLEAN,
     human_prob : HumanProbs]

(***************************************************************************)
(* routes.py: analyze_text and health_check                                *)
(*                                                                         *)
(* A request carries a text, a file or neither.  A text is a text of the   *)
(* text processor followed by extra blanks; a file is known by what        *)
(* parse_file makes of it.  The handlers are coroutines that never await,  *)
(* so one request is handled at a time.                                    *)
(***************************************************************************)

\* settings.max_text_length
max_text_length == 10000

\* str.capitalize() on the word bases of the model
Capitalize(s) ==
    CASE s = "he" -> "He"
      [] s = "dr" -> "Dr"
      [] OTHER -> s

\* the characters of a word: its letters and its ending
TokItems(tok) ==
    <<Word(IF tok.cap THEN Capitalize(tok.base) ELSE tok.base)>>
    \o (IF tok.end = "" THEN << >> ELSE <<Punct(tok.end)>>)

\* a sentence of the text processor as the string the detectors receive
RECURSIVE SentenceItems(_)
SentenceItems(toks) ==
    IF toks = << >> THEN << >> ELSE TokItems(Head(toks)) \o SentenceItems(Tail(toks))

AsString(toks) == [pad |-> 0, items |-> SentenceItems(toks)]

\* len(text) of a request text
TextLen(text) == Chars(AsString(text.toks)) + text.extra

\* a value in 1/ConfScale units in the 1/ScoreScale units of the jury
Scaled(v) == v * (ScoreScale \div ConfScale)

\* the math_result and llm_result dicts as the jury reads them
ForJury(result) ==
    [k \in DOMAIN result |-> IF k \in {"score", "confidence"} THEN Scaled(result[k]) ELSE result[k]]

MathDict(r) == ("score" :> r.score) @@ ("features" :> r.features)

\* the counters of the detector calls made while a request is handled
NoCalls == [math |-> 0, llm |-> 0, jury |-> 0, api |-> 0, constructed |-> 0]

\* lines 120-131: the SentenceResult of one sentence
SentenceResult(sentence, math_result, llm_result, jury_result) ==
    [text |-> sentence,
     classification |-> jury_result.classification,
     confidence |-> jury_result.confidence,
     scores |-> [mathematical |-> math_result.score,
                 llm |-> llm_result["score"],
                 jury_confidence |-> jury_result.confidence],
     reasoning |-> jury_result.reasoning,
     mathematical_features |-> math_result.features]

RECURSIVE SentenceLoop(_, _, _, _, _, _, _)

\* lines 112-133 for sentence i, given what the mathematical and the LLM
\* detector returned: an exception of llm_detector.detect ends the loop
\* before the jury is asked
AfterJury(sentences, i, available, env, results, calls, math_result, llm, jury) ==
    IF llm.exc # "none"
    THEN [exc |-> llm.exc, st |-> llm.st, results |-> results,
          calls |-> [calls EXCEPT !.math = @ + 1, !.llm = @ + 1,
                                  !.constructed = @ + llm.constructed]]
    ELSE SentenceLoop(sentences, i + 1, llm.st, available, env,
                      Append(results,
                             SentenceResult(sentences[i + 1], math_result, llm.ret, jury.result)),
                      [calls EXCEPT !.math = @ + 1, !.llm = @ + 1, !.jury = @ + 1,
                                    !.api = @ + jury.apiCalls,
                                    !.constructed = @ + llm.constructed])

AfterDetectors(sentences, i, available, env, results, calls, math_result, llm) ==
    AfterJury(sentences, i, available, env, results, calls, math_result, llm,
              decide(available, sentences[i + 1], extract_context(sentences, i),
                     ForJury(MathDict(math_result)), ForJury(llm.ret),
                     env.per[i + 1].outcome))

\* lines 101-133: the loop over the sentences from index i (counted from 0);
\* env.per[i + 1] is what the model and the jury service do for sentence i
SentenceLoop(sentences, i, st, available, env, results, calls) ==
    IF i >= Len(sentences)
    THEN [exc |-> "none", st |-> st, results |-> results, calls |-> calls]
    ELSE AfterDetectors(sentences, i, available, env, results, calls,
                        MathematicalDetector_detect(AsString(sentences[i + 1])),
                        LLMDetector_detect(st, sentences[i + 1], env.per[i + 1]))

\* the mutant: the suspicious sentences are not counted
CountOf_NoSuspicious(results, label) ==
    Cardinality({i \in 1..Len(results) :
                    results[i].classification = label /\ label # "suspicious"})

\* sum(1 for r in results if r.classification == label)
CountOf(results, label) ==
    Cardinality({i \in 1..Len(results) : results[i].classification = label})

\* round((count / total) * 100, 2), in hundredths of a percent
Percentage(count, total) == IF total > 0 THEN RoundHalfEven(count * 10000, total) ELSE 0

\* lines 136-149
OverallStats(results) ==
    LET total == Len(results)
    IN  [total_sentences |-> total,
         human_count |-> CountOf(results, "human"),
         suspicious_count |-> CountOf(results, "suspicious"),
         ai_count |-> CountOf(results, "ai"),
         human_percentage |-> Percentage(CountOf(results, "human"), total),
         suspicious_percentage |-> Percentage(CountOf(results, "suspicious"), total),
         ai_percentage |-> Percentage(CountOf(results, "ai"), total)]

\* TextProcessor.preprocess
preprocess(text) == NormaliseWhitespace(text)

\* raise HTTPException(status_code, detail): the request ends without a response body
HttpError(status_code, detail, st, calls) ==
    [status |-> status_code, detail |-> detail, st |-> st, calls |-> calls,
     response |-> EmptyDict]

\* lines 136-160: the response after the loop, or 500 when it raised
Respond(loop) ==
    IF loop.exc # "none"
    THEN HttpError(500, "Analysis failed", loop.st, loop.calls)
    ELSE [status |-> 200, detail |-> "", st |-> loop.st, calls |-> loop.calls,
          response |-> [sentences |-> loop.results,
                        overall_stats |-> OverallStats(loop.results)]]

\* lines 95-160, given the sentences of the text
AnalyzeSentences(st, available, env, sentences) ==
    IF sentences = << >>
    THEN HttpError(400, "No valid sentences found in text", st, NoCalls)
    ELSE Respond(SentenceLoop(sentences, 0, st, available, env, << >>, NoCalls))

\* the mutant: the length of the text is not tested
analyze_text_NoLengthCheck(st, available, request, env) ==
    IF ~(request.kind = "text" /\ TextLen(request.text) > 0) /\ request.kind # "file"
    THEN HttpError(400, "Either text or file must be provided", st, NoCalls)
    ELSE IF request.kind = "file" /\ ~request.parseOk
    THEN HttpError(500, "Analysis failed", st, NoCalls)
    ELSE AnalyzeSentences(st, available, env,
             TextProcessor_split_into_sentences(preprocess(request.text)).val)

\* analyze_text after get_detectors_and_services: the HTTP status, the
\* response body, the LLM detector afterwards and the detector calls made
analyze_text(st, available, request, env) ==
    IF ~(request.kind = "text" /\ TextLen(request.text) > 0) /\ request.kind # "file"
    THEN HttpError(400, "Either text or file must be provided", st, NoCalls)
    ELSE IF request.kind = "file" /\ ~request.parseOk
    THEN HttpError(500, "Analysis failed", st, NoCalls)
    ELSE IF TextLen(request.text) > max_text_length
    THEN HttpError(400, "Text too long", st, NoCalls)
    ELSE AnalyzeSentences(st, available, env,
             TextProcessor_split_into_sentences(preprocess(request.text)).val)

\* health_check; is_loaded and is_available do not raise, so the except
\* branch that answers "degraded" is never taken
health_check(isCreated, st, available) ==
    [status |-> "healthy",
     models_loaded |-> [mathematical |-> TRUE,
                        llm |-> isCreated /\ LLMDetector_is_loaded(st),
                        jury_api |-> isCreated /\ available]]

(***************************************************************************)
(* Inputs of the routes                                                    *)
(***************************************************************************)

\* the longest request text, in pieces
MaxAppPieces == 2

\* "He he he.", "He he he!" and the fragment "he."
AppPieces ==
    {<<Tok("he", TRUE, ""), Tok("he", FALSE, ""), Tok("he", FALSE, ".")>>,
     <<Tok("he", TRUE, ""), Tok("he", FALSE, ""), Tok("he", FALSE, "!")>>,
     <<Tok("he", FALSE, ".")>>}

RECURSIVE Flatten(_)
Flatten(pieces) ==
    IF pieces = << >> THEN << >> ELSE Head(pieces) \o Flatten(Tail(pieces))

AppText(toks, extra) == [ws |-> "single", toks |-> toks, extra |-> extra]

\* texts of up to MaxAppPieces pieces; blanks only; and a one-piece text
\* padded with blanks to exactly max_text_length characters and to one more
AppTexts ==
    {AppText(Flatten(t), 0) : t \in SeqsUpTo(AppPieces, MaxAppPieces)}
    \cup {AppText(<< >>, 2)}
    \cup {AppText(t, max_text_length - TextLen(AppText(t, 0)) + d) :
            t \in AppPieces, d \in {0, 1}}

Requests ==
    {[kind |-> "neither"]}
    \cup {[kind |-> "text", text |-> t] : t \in AppTexts}
    \cup {[kind |-> "file", parseOk |-> FALSE, text |-> AppText(<< >>, 0)]}
    \cup {[kind |-> "file", parseOk |-> TRUE, text |-> t] :
            t \in {AppText(<< >>, 0),
                   AppText(<<Tok("he", TRUE, ""), Tok("he", FALSE, ""), Tok("he", FALSE, ".")>>, 0)}}

\* what the model and the jury service do for one sentence
PerSentence ==
    {[tokOk |-> TRUE, modelOk |-> TRUE, moveOk |-> TRUE, inferOk |-> TRUE, human_prob |-> 90000,
      outcome |-> [kind |-> "timeout", content |-> NoContent]],
     [tokOk |-> TRUE, modelOk |-> TRUE, moveOk |-> TRUE, inferOk |-> TRUE, human_prob |-> 2000,
      outcome |-> [kind |-> "ok", content |-> Text(<<Body(JObject(
          ("classification" :> JStr("ai")) @@ ("confidence" :> JNum(87655))
          @@ ("reasoning" :> JStr("because"))))>>)]],
     [tokOk |-> TRUE, modelOk |-> TRUE, moveOk |-> TRUE, inferOk |-> FALSE, human_prob |-> 50000,
      outcome |-> [kind |-> "ok", content |-> Text(<<Body(JObject(
          ("classification" :> JStr("HUMAN"))))>>)]],
     [tokOk |-> TRUE, modelOk |-> FALSE, moveOk |-> TRUE, inferOk |-> TRUE, human_prob |-> 50000,
      outcome |-> [kind |-> "http_status", content |-> NoContent]],
     [tokOk |-> FALSE, modelOk |-> TRUE, moveOk |-> TRUE, inferOk |-> TRUE, human_prob |-> 50000,
      outcome |-> [kind |-> "ok", content |-> Text(<<Body(NotJson)>>)]],
     [tokOk |-> TRUE, modelOk |-> TRUE, moveOk |-> FALSE, inferOk |-> TRUE, human_prob |-> 50000,
      outcome |-> [kind |-> "timeout", content |-> NoContent]]}

\* the sentences a request leads to, to enumerate the environment per sentence
SentenceCount(request) ==
    IF request.kind = "neither" THEN 0
    ELSE Len(TextProcessor_split_into_sentences(preprocess(request.text)).val)

\* without an API key no request is sent to the jury service
AppEnvs(request, available) ==
    {[per |-> f] : f \in [1..Max(SentenceCount(request), 1) ->
        {IF available THEN e ELSE [e EXCEPT !.outcome = NotCalled] : e \in PerSentence}]}

(***************************************************************************)
(* The state machine of the routes                                         *)
(***************************************************************************)

\* POST /analyze: get_detectors_and_services creates the detectors on the
\* first request, then the request is handled
Analyze ==
    /\ call.op = "none"
    /\ \E request \in Requests :
       \E env \in AppEnvs(request, juryAvailable) :
       \E r \in {analyze_text(LlmState, juryAvailable, request, env)} :
          LET loadFailed == r.status = 500 /\ ~r.st.loaded /\ r.calls.llm > 0
          IN  /\ constructions + r.calls.constructed <= MaxConstructions
              /\ created' = TRUE
              /\ llmLoaded' = r.st.loaded
              /\ llmModel' = r.st.model
              /\ llmTokenizer' = r.st.tokenizer
              /\ constructions' = constructions + r.calls.constructed
              /\ llmLoadFailed' = IF loadFailed THEN TRUE
                                  ELSE IF r.st.loaded THEN FALSE ELSE llmLoadFailed
              /\ call' = [op |-> "analyze", request |-> request,
                          loadedBefore |-> llmLoaded,
                          status |-> r.status, detail |-> r.detail,
                          response |-> r.response, calls |-> r.calls]
    /\ UNCHANGED <<juryAvailable, semLoaded, semModel, pc>>

\* GET /health
HealthCheck ==
    /\ call.op = "none"
    /\ call' = [op |-> "health", ret |-> health_check(created, LlmState, juryAvailable)]
    /\ UNCHANGED <<juryAvailable, semLoaded, semModel, llmVars>>

AppNext ==
    \/ Analyze
    \/ HealthCheck
    \/ TakeResult

\* the service: requests handled one after the other
SpecApp == Init /\ [][AppNext]_vars

(***************************************************************************)
(* The life of the two lazily loaded detectors, one operation at a time    *)
(***************************************************************************)

\* get_detectors_and_services: the detector objects are created, no model
\* is loaded
CreateDetectors ==
    /\ call.op = "none"
    /\ ~created
    /\ created' = TRUE
    /\ call' = [op |-> "construct"]
    /\ UNCHANGED <<juryAvailable, semLoaded, semModel, llmLoaded, llmModel, llmTokenizer,
                   pc, constructions, llmLoadFailed>>

\* LLMDetector.load
LlmLoad ==
    /\ call.op = "none"
    /\ \E env \in LlmEnvs :
       \E r \in {LLMDetector_load(LlmState, env)} :
          /\ constructions + r.constructed <= MaxConstructions
          /\ llmLoaded' = r.st.loaded
          /\ llmModel' = r.st.model
          /\ llmTokenizer' = r.st.tokenizer
          /\ constructions' = constructions + r.constructed
          /\ call' = [op |-> "llm_load", raised |-> r.exc # "none"]
    /\ UNCHANGED <<juryAvailable, semLoaded, semModel, pc, created, llmLoadFailed>>

\* the sentences given to LLMDetector.detect: "" and "He he he."
LlmSentences ==
    {<< >>, <<Tok("he", TRUE, ""), Tok("he", FALSE, ""), Tok("he", FALSE, ".")>>}

\* LLMDetector.detect
LlmDetect ==
    /\ call.op = "none"
    /\ \E sentence \in LlmSentences, env \in LlmEnvs :
       \E r \in {LLMDetector_detect(LlmState, sentence, env)} :
          /\ constructions + r.constructed <= MaxConstructions
          /\ llmLoaded' = r.st.loaded
          /\ llmModel' = r.st.model
          /\ llmTokenizer' = r.st.tokenizer
          /\ constructions' = constructions + r.constructed
          /\ call' = [op |-> "llm_detect", sentence |-> sentence,
                      raised |-> r.exc # "none", ret |-> r.ret]
    /\ UNCHANGED <<juryAvailable, semLoaded, semModel, pc, created, llmLoadFailed>>

\* LLMDetector.unload
LlmUnload ==
    /\ call.op = "none"
    /\ llmLoaded' = LLMDetector_unload(LlmState).loaded
    /\ llmModel' = LLMDetector_unload(LlmState).model
    /\ llmTokenizer' = LLMDetector_unload(LlmState).tokenizer
    /\ constructions' = 0
    /\ call' = [op |-> "llm_unload"]
    /\ UNCHANGED <<juryAvailable, semLoaded, semModel, pc, created, llmLoadFailed>>

\* LLMDetector.is_loaded
LlmIsLoaded ==
    /\ call.op = "none"
    /\ call' = [op |-> "llm_is_loaded", ret |-> LLMDetector_is_loaded(LlmState)]
    /\ UNCHANGED <<juryAvailable, semLoaded, semModel, llmVars>>

\* SemanticEmbeddingDetector.is_loaded
SemIsLoaded ==
    /\ call.op = "none"
    /\ call' = [op |-> "is_loaded", ret |-> semLoaded]
    /\ UNCHANGED <<juryAvailable, semLoaded, semModel, llmVars>>

LifeNext ==
    \/ CreateDetectors
    \/ LlmLoad
    \/ LlmDetect
    \/ LlmUnload
    \/ LlmIsLoaded
    \/ SemLoad
    \/ SemDetect
    \/ SemUnload
    \/ SemIsLoaded
    \/ HealthCheck
    \/ TakeResult

\* construct, health_check, is_loaded, load, detect and unload in any order
SpecLife == Init /\ [][LifeNext]_vars


(***************************************************************************)
(* Properties of the jury                                                  *)
(***************************************************************************)

AllowedLabels == {"human", "suspicious", "ai"}

\* the failures of the external call: transport error, timeout, HTTP error status
TransportFailures == {"connect_error", "timeout", "http_status"}

\* twice the average of the two scores of the call, a missing score counting as 0.5
ScoreSum ==
    (IF "score" \in DOMAIN call.math_result THEN call.math_result["score"] ELSE ScoreScale \div 2)
    + (IF "score" \in DOMAIN call.llm_result THEN call.llm_result["score"] ELSE ScoreScale \div 2)

\* the call was answered by voting: no API key, or the external call raised
VotedCall ==
    /\ call.op = "decide"
    /\ \/ ~juryAvailable
       \/ call.outcome.kind \in FailureKinds

\* c, in 1/ConfScale units, is x2 / 2, in 1/ScoreScale units, rounded to 4 decimals
IsRounded4OfHalf(c, x2) ==
    LET d == 2 * (ScoreScale \div ConfScale) * c - x2
    IN  /\ d <= ScoreScale \div ConfScale
        /\ 0 - d <= ScoreScale \div ConfScale

\* C1: decide never raises, and when no API key is configured or the external
\* call fails with a transport error, an HTTP error status or a timeout, it
\* returns exactly what _fallback_decision gives for the same two results.
C1_FallbackOnExternalTrouble ==
    call.op = "decide" =>
        /\ ~call.ret.raised
        /\ (~juryAvailable \/ call.outcome.kind \in TransportFailures) =>
              call.ret.result = _fallback_decision(call.math_result, call.llm_result)

\* C1 witness: a configured jury whose request timed out voted 'human'
C1_Witness ==
    /\ call.op = "decide"
    /\ juryAvailable
    /\ call.outcome.kind = "timeout"
    /\ call.ret.result.classification = "human"
    /\ call.ret.result.confidence = 9000

\* the content of a successful call is malformed: no JSON, no JSON object, or
\* an object whose confidence is not numeric
MalformedContent(content) ==
    \/ content.null
    \/ LET loaded == JsonLoads(StripFences(content.toks))
       IN  \/ loaded.exc # "none"
           \/ loaded.val.j # "object"
           \/ /\ "confidence" \in DOMAIN loaded.val.d
              /\ loaded.val.d["confidence"].j \notin {"num", "nan", "bool"}
              /\ loaded.val.d["confidence"] # JStr("0.7")

\* C2 (as claimed): when the external call succeeds with malformed content,
\* decide returns the classification and confidence of _fallback_decision.
C2_MalformedContentVotes ==
    (/\ call.op = "decide"
     /\ juryAvailable
     /\ call.outcome.kind = "ok"
     /\ MalformedContent(call.outcome.content)) =>
        LET fb == _fallback_decision(call.math_result, call.llm_result)
        IN  /\ call.ret.result.classification = fb.classification
            /\ call.ret.result.confidence = fb.confidence

\* C3: the label of a vote depends on the two scores only: 'human' iff the
\* average is above 0.6, 'ai' iff it is below 0.4, 'suspicious' otherwise
\* (so at exactly 0.6 and exactly 0.4); a missing score counts as 0.5.
C3_FallbackLabel ==
    VotedCall =>
        /\ call.ret.result.classification = "human" <=> ScoreSum > (12 * ScoreScale) \div 10
        /\ call.ret.result.classification = "ai" <=> ScoreSum < (8 * ScoreScale) \div 10
        /\ call.ret.result.classification = "suspicious" <=>
              /\ ScoreSum >= (8 * ScoreScale) \div 10
              /\ ScoreSum <= (12 * ScoreScale) \div 10

\* C3 witness: a vote with one score missing and an average of exactly 0.6
C3_Witness ==
    /\ VotedCall
    /\ call.math_result = EmptyDict
    /\ ScoreSum = (12 * ScoreScale) \div 10
    /\ call.ret.result.classification = "suspicious"
    /\ call.sentence = "s2"

\* C4 (as claimed): the confidence of a vote is the average when the label is
\* 'human' or 'suspicious' and one minus the average when it is 'ai'.
C4_ConfidenceIsAverage ==
    VotedCall =>
        /\ call.ret.result.classification \in {"human", "suspicious"} =>
              IsRounded4OfHalf(call.ret.result.confidence, ScoreSum)
        /\ call.ret.result.classification = "ai" =>
              IsRounded4OfHalf(call.ret.result.confidence, 2 * ScoreScale - ScoreSum)

\* C4 (amended): the confidence of a vote is the average when the label is
\* 'human', one minus the average when it is 'ai' (both rounded to 4
\* decimals), and the fixed value 0.5 when the label is 'suspicious'.
C4_FallbackConfidence ==
    VotedCall =>
        /\ call.ret.result.classification = "human" =>
              IsRounded4OfHalf(call.ret.result.confidence, ScoreSum)
        /\ call.ret.result.classification = "ai" =>
              IsRounded4OfHalf(call.ret.result.confidence, 2 * ScoreScale - ScoreSum)
        /\ call.ret.result.classification = "suspicious" =>
              call.ret.result.confidence = ConfScale \div 2

\* C4 witness: scores 0.1 and 0.2 vote 'ai' with confidence 0.85
C4_Witness ==
    /\ VotedCall
    /\ call.math_result = ("score" :> 10000)
    /\ call.llm_result = ("score" :> 20000)
    /\ call.ret.result.classification = "ai"
    /\ call.ret.result.confidence = 8500

\* the JSON object of a successful call that _parse_response accepts
ParsedObject == JsonLoads(StripFences(call.outcome.content.toks)).val.d

AcceptedContent ==
    /\ call.op = "decide"
    /\ juryAvailable
    /\ call.outcome.kind = "ok"
    /\ ~MalformedContent(call.outcome.content)
    /\ "classification" \in DOMAIN ParsedObject => ParsedObject["classification"].j = "str"

\* C5: every result of decide has a label among human, suspicious, ai and a
\* confidence in [0,1]; an external label outside the three (compared in
\* lower case) becomes 'suspicious' and an external confidence outside [0,1]
\* becomes the nearest bound.
C5_ResultInRange ==
    call.op = "decide" =>
        /\ call.ret.result.classification \in AllowedLabels
        /\ call.ret.result.confidence >= 0
        /\ call.ret.result.confidence <= ConfScale
        /\ AcceptedContent =>
              /\ ("classification" \in DOMAIN ParsedObject
                    /\ Lower(ParsedObject["classification"].s) \notin AllowedLabels) =>
                       call.ret.result.classification = "suspicious"
              /\ ("confidence" \in DOMAIN ParsedObject
                    /\ ParsedObject["confidence"].j = "num") =>
                       /\ ParsedObject["confidence"].n > ScoreScale =>
                             call.ret.result.confidence = ConfScale
                       /\ ParsedObject["confidence"].n < 0 =>
                             call.ret.result.confidence = 0

\* C5 witness: the service answered label 'robot' with confidence 1.7
C5_Witness ==
    /\ AcceptedContent
    /\ ParsedObject = ("classification" :> JStr("robot")) @@ ("confidence" :> JNum(170000))
    /\ call.ret.result.classification = "suspicious"
    /\ call.ret.result.confidence = ConfScale

(***************************************************************************)
(* Properties of the zone classification                                   *)
(***************************************************************************)

\* detect computed the spread of a non-empty document and classified it
Classified ==
    /\ call.op = "detect"
    /\ ~IsBlank(call.text)
    /\ call.computed

\* C6: every non-empty document whose spread is computed gets exactly one
\* zone in 1..5: zone 1 iff spread > AI-mean; zone 2 iff
\* AI-mean - sigma_AI/2 < spread <= AI-mean; zone 3 iff
\* human-mean + sigma_human/2 <= spread <= AI-mean - sigma_AI/2; zone 4 iff
\* human-mean <= spread < human-mean + sigma_human/2; zone 5 iff
\* spread < human-mean.  (Compared after doubling, to keep the halves exact.)
C6_ZonePartition ==
    Classified =>
        LET std2 == 2 * call.std
            ai2 == 2 * GLOBAL_MEAN_STD_AI
            human2 == 2 * GLOBAL_MEAN_STD_HUMAN
            zone == call.ret.zone
        IN  /\ zone \in 1..5
            /\ zone = 1 <=> std2 > ai2
            /\ zone = 2 <=> (ai2 - SIGMA_STD_AI < std2 /\ std2 <= ai2)
            /\ zone = 3 <=> (human2 + SIGMA_STD_HUMAN <= std2 /\ std2 <= ai2 - SIGMA_STD_AI)
            /\ zone = 4 <=> (human2 <= std2 /\ std2 < human2 + SIGMA_STD_HUMAN)
            /\ zone = 5 <=> std2 < human2

\* C6 witness: a spread equal to the AI mean was put in zone 2
C6_Witness ==
    /\ Classified
    /\ call.std = 368240
    /\ call.ret.zone = 2

\* C7: label, confidence and soft score follow from the zone alone:
\* 1 -> ('ai', 0.8675, 0.02), 2 -> ('likely-ai', 0.7465, 0.25),
\* 3 -> ('mixed', 0.5, 0.5), 4 -> ('likely-human', 0.6753, 0.75),
\* 5 -> ('human', 0.9486, 0.98); a spread equal to the human mean is in zone 4.
C7_ZoneVerdict ==
    Classified =>
        LET r == call.ret
            v == <<r.classification, r.confidence, r.score>>
        IN  /\ r.zone = 1 => v = <<"ai", 8675, 200>>
            /\ r.zone = 2 => v = <<"likely-ai", 7465, 2500>>
            /\ r.zone = 3 => v = <<"mixed", 5000, 5000>>
            /\ r.zone = 4 => v = <<"likely-human", 6753, 7500>>
            /\ r.zone = 5 => v = <<"human", 9486, 9800>>
            /\ call.std = 309630 => r.zone = 4

\* C7 witness: a spread equal to the human mean got the zone-4 confidence
C7_Witness ==
    /\ Classified
    /\ call.std = 309630
    /\ call.ret.zone = 4
    /\ call.ret.confidence = 6753
    /\ call.ret.classification = "likely-human"

(***************************************************************************)
(* Properties of the chunker                                               *)
(***************************************************************************)

\* sentence_aware_chunk_encode returned its rows
Chunked ==
    /\ call.op = "chunk_encode"
    /\ ~call.raised

Sentences == split_into_sentences(call.text)

\* chunks are joins of whole consecutive sentences that together make up
\* exactly the sequence sentences
RECURSIVE MadeOfSentences(_, _)
MadeOfSentences(chunks, sentences) ==
    IF chunks = << >> THEN sentences = << >>
    ELSE \E q \in 0..Len(sentences) :
            /\ Head(chunks) = Join(SubSeq(sentences, 1, q))
            /\ MadeOfSentences(Tail(chunks), SubSeq(sentences, q + 1, Len(sentences)))

\* C8: for every sentence list and every target chunk count >= 1, each chunk
\* is a join of whole consecutive sentences and the chunks' sentences, in
\* chunk order, are the original sentence sequence: none split, lost or
\* duplicated.
C8_ChunksCoverSentences ==
    Chunked => MadeOfSentences(call.chunks, Sentences)

\* C8 witness: 5 sentences were distributed over more than one chunk, one of
\* them holding several sentences
C8_Witness ==
    /\ Chunked
    /\ Len(Sentences) = 5
    /\ call.num_chunks = 2
    /\ Len(call.chunks) = 2
    /\ \E c \in 1..Len(call.chunks) : Len(call.chunks[c]) >= 3

\* C9: a document with fewer sentences than the target chunk count gives one
\* chunk per sentence and as many rows, none of them padding.
C9_FewSentencesNoPadding ==
    (Chunked /\ Len(Sentences) < call.num_chunks) =>
        /\ call.chunks = Sentences
        /\ Len(call.rows) = Len(Sentences)
        /\ \A i \in 1..Len(call.rows) : call.rows[i] = [zero |-> FALSE, of |-> Sentences[i]]

\* C9 witness: 3 sentences with target chunk count 50 gave exactly 3 rows
C9_Witness ==
    /\ Chunked
    /\ Len(Sentences) = 3
    /\ call.num_chunks = 50
    /\ Len(call.chunks) = 3
    /\ Len(call.rows) = 3

\* the number of sentences in a chunk (a chunk is a join of whole sentences)
RECURSIVE SentencesIn(_, _)
SentencesIn(chunk, sentences) ==
    IF chunk = << >> THEN 0
    ELSE CHOOSE q \in 1..Len(sentences) : chunk = Join(SubSeq(sentences, 1, q))

\* the index of the last sentence of each chunk, given the sentences left
RECURSIVE ChunkEnds(_, _, _)
ChunkEnds(chunks, sentences, done) ==
    IF chunks = << >> THEN << >>
    ELSE LET q == SentencesIn(Head(chunks), sentences)
         IN  <<done + q>> \o ChunkEnds(Tail(chunks), SubSeq(sentences, q + 1, Len(sentences)), done + q)

\* C10 (as claimed): with total_sentences >= target_chunk_count, chunk c
\* (0-based) is closed at the first sentence at which the number of sentences
\* read so far in the document reaches (c+1) * total_sentences /
\* target_chunk_count, or at the final sentence.
C10_ClosesAtRunningCount ==
    (Chunked /\ Len(Sentences) >= call.num_chunks) =>
        LET ends == ChunkEnds(call.chunks, Sentences, 0)
            total == Len(Sentences)
            Reached(i, c) == i * call.num_chunks >= (c + 1) * total
        IN  \A k \in 1..Len(ends) :
               LET first == IF k = 1 THEN 1 ELSE ends[k - 1] + 1
               IN  /\ Reached(ends[k], k - 1) \/ ends[k] = total
                   /\ \A i \in first..(ends[k] - 1) : ~Reached(i, k - 1)

\* C11 (as claimed): with total_sentences >= target_chunk_count the chunker
\* produces exactly target_chunk_count chunks, and the embedding array has
\* as many rows.
C11_ExactlyNumChunks ==
    (Chunked /\ Len(Sentences) >= call.num_chunks) =>
        /\ Len(call.chunks) = call.num_chunks
        /\ Len(call.rows) = call.num_chunks

\* C12 (as claimed): however the threads' first uses interleave, the model
\* of the LLM detector is constructed at most once.
C12_SingleConstruction ==
    constructions <= 1

\* C13: one call of decide invokes the external API zero times when no API
\* key is configured and exactly once when one is; when that invocation
\* fails or times out the call returns the voting result without a second
\* invocation.
C13_AtMostOneApiCall ==
    call.op = "decide" =>
        /\ call.ret.apiCalls = (IF juryAvailable THEN 1 ELSE 0)
        /\ (juryAvailable /\ call.outcome.kind \in FailureKinds) =>
              /\ call.ret.apiCalls = 1
              /\ call.ret.result = _fallback_decision(call.math_result, call.llm_result)

\* C13 witness: a configured jury whose connection failed voted after a
\* single invocation
C13_Witness ==
    /\ call.op = "decide"
    /\ juryAvailable
    /\ call.outcome.kind = "connect_error"
    /\ call.ret.apiCalls = 1
    /\ call.ret.result = _fallback_decision(call.math_result, call.llm_result)

\* the call of MathematicalDetector.detect that has just returned
MathCall == call.op = "math_detect"

\* a returned value, in 1/ConfScale units, is a number between 0 and 1
InUnit(v) == v \in 0..ConfScale

\* C14: for every sentence, those with no or one word included, detect
\* returns a score in [0,1] and a value in [0,1] for each of the six
\* features, and every feature it computes is in [0,1].
C14_ScoreAndFeaturesInRange ==
    MathCall =>
        /\ InUnit(call.ret.score)
        /\ DOMAIN call.ret.features = FEATURE_NAMES
        /\ \A n \in FEATURE_NAMES : InUnit(call.ret.features[n])
        /\ ~Blank(call.sentence) =>
              \A n \in FEATURE_NAMES : call.computed[n] \in 0..MicroScale

\* C14 witness: a sentence of punctuation only (no word token) and a
\* sentence of one word were scored
C14_Witness ==
    /\ MathCall
    /\ ~Blank(call.sentence)
    /\ Len(_tokenize_words(call.sentence)) = 0
    /\ call.ret.features["punctuation"] < Round4Micro(NEUTRAL)
    /\ call.ret.score > 0

\* C15: for an empty or whitespace-only sentence detect returns 0.5 for
\* every feature and 0.5 for the score.
C15_BlankIsNeutral ==
    (MathCall /\ Blank(call.sentence)) =>
        /\ call.ret.score = ConfScale \div 2
        /\ \A n \in FEATURE_NAMES : call.ret.features[n] = ConfScale \div 2

\* C15 witness: a sentence of two blanks got the neutral result
C15_Witness ==
    /\ MathCall
    /\ call.sentence.pad = 2
    /\ call.sentence.items = << >>
    /\ call.ret.score = ConfScale \div 2

\* max(0, 0.10*burstiness + 0.25*vocabulary_richness + 0.20*word_frequency
\* + 0.20*punctuation + 0.10*complexity + 0.15*entropy - 0.03) of six feature
\* values in units of 1/unit, the result in the same units
ClaimedScore(f, unit) ==
    LET weighted == (10 * f["burstiness"] + 25 * f["vocabulary_richness"]
                     + 20 * f["word_frequency"] + 20 * f["punctuation"]
                     + 10 * f["complexity"] + 15 * f["entropy"]) \div 100
        lowered == weighted - (3 * unit) \div 100
    IN  IF lowered < 0 THEN 0 ELSE lowered

\* C16: for every non-empty sentence the score is max(0, weighted sum of the
\* six features - 0.03) rounded to 4 decimals, which the features returned
\* (themselves rounded to 4 decimals) reproduce to within 0.0001; the
\* weights sum to 1 and the score is at most 0.97.
C16_WeightedScore ==
    (MathCall /\ ~Blank(call.sentence)) =>
        /\ call.ret.score = Round4Micro(ClaimedScore(call.computed, MicroScale))
        /\ Abs(call.ret.score - ClaimedScore(call.ret.features, ConfScale)) <= 1
        /\ SumOver(FEATURE_NAMES, WEIGHTS) = 100
        /\ call.ret.score >= 0
        /\ call.ret.score <= (97 * ConfScale) \div 100

\* C16 witness: a sentence whose weighted sum is below 0.03 was scored 0,
\* and the features returned are not all 0
C16_Witness ==
    /\ MathCall
    /\ ~Blank(call.sentence)
    /\ call.ret.score = 0
    /\ call.ret.features["vocabulary_richness"] > 0
    /\ ClaimedScore(call.computed, MicroScale) = 0

\* the call of TextProcessor.split_into_sentences that has just returned
SplitCall == call.op = "split"

\* C17: split_into_sentences raises for no text, and returns the empty list
\* for a text that is empty or consists of whitespace only.
C17_BlankGivesEmptyList ==
    SplitCall =>
        /\ call.ret.exc = "none"
        /\ call.text.toks = << >> => call.ret.val = << >>

\* C17 witness: a text of blanks and newlines only gave the empty list
C17_Witness ==
    /\ SplitCall
    /\ call.text.ws = "runs"
    /\ call.text.toks = << >>
    /\ call.ret = Return(<< >>)

\* C18 (as claimed): joining the sentences returned with single spaces and
\* segmenting the joined text gives the same sentences.
C18_Idempotent ==
    SplitCall =>
        TextProcessor_split_into_sentences(JoinSentences(call.ret.val)) = call.ret

\* s is a run of consecutive words of toks that starts after word number at
\* least from; the number of its last word, 0 if there is none
RunEnd(s, toks, from) ==
    LET starts == {p \in from..(Len(toks) - Len(s)) : SubSeq(toks, p + 1, p + Len(s)) = s}
    IN  IF starts = {} THEN 0
        ELSE (CHOOSE p \in starts : \A q \in starts : p <= q) + Len(s)

\* the sentences are runs of words of toks, one after the other
RECURSIVE InOrderIn(_, _, _)
InOrderIn(sentences, toks, from) ==
    IF sentences = << >> THEN TRUE
    ELSE LET e == RunEnd(Head(sentences), toks, from)
         IN  e > 0 /\ InOrderIn(Tail(sentences), toks, e)

\* C19 (as claimed): every sentence returned is a contiguous part of the
\* whitespace-normalised text, letter case included, and the sentences
\* come in the order of their positions.
C19_SentencesAreSubstrings ==
    SplitCall => InOrderIn(call.ret.val, NormaliseWhitespace(call.text).toks, 0)

\* the numbers of the words after which a piece ends, the last word excepted
RECURSIVE PieceEnds(_, _)
PieceEnds(pieces, done) ==
    IF pieces = << >> \/ Tail(pieces) = << >> THEN {}
    ELSE {done + Len(Head(pieces))} \cup PieceEnds(Tail(pieces), done + Len(Head(pieces)))

\* C20 (as claimed): a boundary is placed after exactly those words that
\* end with a terminator which is not the period of a listed abbreviation
\* and are followed by a word that starts with a capital letter.
C20_BoundariesExact ==
    SplitCall =>
        LET toks == call.text.toks
        IN  PieceEnds(call.pieces, 0) =
               {i \in 1..(Len(toks) - 1) :
                   /\ toks[i].end \in TERMINATORS
                   /\ ~(toks[i].base \in abbreviations /\ toks[i].end = ".")
                   /\ toks[i + 1].cap}

\* the /analyze request that has just been answered
AnalyzeCall == call.op = "analyze"

\* the request carries neither a text nor a file, its text is too long, or
\* its text has no sentence
Unusable(request) ==
    \/ request.kind = "neither"
    \/ request.kind = "text" /\ TextLen(request.text) = 0
    \/ request.kind = "text" /\ TextLen(request.text) > max_text_length
    \/ request.kind = "text" /\ SentenceCount(request) = 0

\* C21: a request with neither text nor file, with a text longer than
\* max_text_length or with a text without sentences is answered 400, and
\* handling it calls no detector and loads no model.
C21_RejectedWithoutDetectors ==
    (AnalyzeCall /\ Unusable(call.request)) =>
        /\ call.status = 400
        /\ call.calls = NoCalls
        /\ llmLoaded = call.loadedBefore

\* C21 witness: a text of max_text_length + 1 characters that holds a
\* sentence was rejected while the model was not loaded
C21_Witness ==
    /\ AnalyzeCall
    /\ call.request.kind = "text"
    /\ TextLen(call.request.text) = max_text_length + 1
    /\ SentenceCount(call.request) = 1
    /\ call.status = 400
    /\ ~llmLoaded
    /\ call.calls = NoCalls

\* C22: once an /analyze request has failed because the LLM model could not
\* be loaded (and no later request has loaded it), every health check
\* reports the status "degraded" with llm unavailable, while mathematical
\* and jury_api keep their values.
C22_DegradedAfterLoadFailure ==
    (call.op = "health" /\ llmLoadFailed) =>
        /\ call.ret.status = "degraded"
        /\ call.ret.models_loaded["llm"] = FALSE
        /\ call.ret.models_loaded["mathematical"] = TRUE
        /\ call.ret.models_loaded["jury_api"] = juryAvailable

\* the call of extract_context that has just returned
ContextCall == call.op = "extract_context"

\* C23: for a sentence list and a valid index i (counted from 0),
\* extract_context returns before = sentences[i-1] when i > 0 and None when
\* i = 0, after = sentences[i+1] when i is not the last index and None when
\* it is; a single-sentence list gives None twice and an interior index
\* gives two sentences.
C23_ContextIsNeighbours ==
    ContextCall =>
        LET s == call.sentences
            i == call.index
            n == Len(call.sentences)
            before == call.ret["before"]
            after == call.ret["after"]
        IN  /\ (i = 0) => before = "None"
            /\ (i > 0) => before = s[(i - 1) + 1]
            /\ (i = n - 1) => after = "None"
            /\ (i < n - 1) => after = s[(i + 1) + 1]
            /\ (n = 1) => (before = "None" /\ after = "None")
            /\ (0 < i /\ i < n - 1) => (before # "None" /\ after # "None")

\* C23 witness: the context of the first of three sentences
C23_Witness ==
    /\ ContextCall
    /\ call.sentences = <<"s1", "s2", "s3">>
    /\ call.index = 0
    /\ call.ret["before"] = "None"
    /\ call.ret["after"] = "s2"

\* what detect returns for the text of the last call when the spread is s
DetectAt(s) ==
    detect(semLoaded, semModel, call.text,
           [loadOk |-> TRUE, encodeOk |-> TRUE, stdOk |-> TRUE, std |-> s]).ret

\* C24: higher spread is more AI-like.  For two spreads s1 <= s2 detect
\* gives zone(s1) >= zone(s2) and soft score(s1) >= soft score(s2); the
\* boundaries are strictly ordered, human mean < unclassified lower <
\* unclassified upper < AI mean, and every zone holds a spread.
C24_HigherSpreadMoreAI ==
    /\ GLOBAL_MEAN_STD_HUMAN < UNCLASSIFIED_LOWER
    /\ UNCLASSIFIED_LOWER < UNCLASSIFIED_UPPER
    /\ UNCLASSIFIED_UPPER < GLOBAL_MEAN_STD_AI
    /\ (call.op = "detect" /\ call.computed) =>
          /\ \A s \in SpreadSet :
                /\ (call.std <= s) =>
                      /\ call.ret.zone >= DetectAt(s).zone
                      /\ call.ret.score >= DetectAt(s).score
                /\ (s <= call.std) =>
                      /\ DetectAt(s).zone >= call.ret.zone
                      /\ DetectAt(s).score >= call.ret.score
          /\ \A z \in 1..5 : \E s \in SpreadSet : DetectAt(s).zone = z

\* C24 witness: a spread just above the human mean was put in zone 4,
\* below zone 5 of a smaller spread and above zone 2 of a larger one
C24_Witness ==
    /\ call.op = "detect"
    /\ call.computed
    /\ call.std = GLOBAL_MEAN_STD_HUMAN + SpreadDelta
    /\ call.ret.zone = 4
    /\ DetectAt(0).zone = 5
    /\ DetectAt(360000).zone = 2

\* C25: the per-token score of the word-frequency feature is monotone in
\* commonness: of two words of the common-word table the one with the lower
\* rank (the more common one) never gets the higher per-token score, and a
\* word absent from the table gets the maximal score 1.0.
C25_CommonerNeverHigher ==
    (MathCall /\ call.word_scores # << >>) =>
        \A i, j \in 1..Len(call.words) :
            LET wi == call.words[i]
                wj == call.words[j]
            IN  /\ (wi \notin DOMAIN common_words) => call.word_scores[i] = MicroScale
                /\ (/\ wi \in DOMAIN common_words
                    /\ wj \in DOMAIN common_words
                    /\ common_words[wi] < common_words[wj])
                       => call.word_scores[i] <= call.word_scores[j]

\* C26: with construct, health_check, is_loaded, load, detect and unload
\* called one after the other on LLMDetector and SemanticEmbeddingDetector,
\* the model is constructed only by a load() or a detect() that finds the
\* detector unloaded, at most once between two unloads; is_loaded() = true
\* implies that the model is present; after unload() the detector is
\* unloaded and holds no model, and a detect() that then computes a result
\* has loaded the model again.
C26_LazyLoadLifecycle ==
    /\ [][constructions' > constructions =>
              (call'.op \in {"llm_load", "llm_detect"} /\ ~llmLoaded)]_vars
    /\ [][(semModel' = "model" /\ semModel # "model") =>
              (call'.op \in {"load", "detect"} /\ ~semLoaded)]_vars
    /\ [](constructions <= 1)
    /\ [](llmLoaded => llmModel = "model")
    /\ [](semLoaded => semModel = "model")
    /\ [](call.op = "llm_unload" => (~llmLoaded /\ llmModel = "None"))
    /\ [](call.op = "unload" => (~semLoaded /\ semModel = "None"))
    /\ []((call.op = "llm_detect" /\ ~call.raised) => llmLoaded)
    /\ []((call.op = "detect" /\ call.computed) => semLoaded)

\* the call of SemanticEmbeddingDetector.detect that has just returned
SemDetectCall == call.op = "detect"

\* score 0.5, confidence 0.0, std 0.0 and zone 0 with the given classification
IsNeutralDict(ret, classification) ==
    /\ ret.score * 2 = ConfScale
    /\ ret.confidence = 0
    /\ ret.std = 0
    /\ ret.zone = 0
    /\ ret.classification = classification

\* C27: SemanticEmbeddingDetector.detect always returns a dict.  For an
\* empty or whitespace-only text it is score 0.5, confidence 0.0, zone 0,
\* 'unknown', and the model is not loaded by the call; when loading the
\* model, encoding or the spread computation fails it is score 0.5,
\* confidence 0.0, std 0.0, zone 0, 'error', and the detector is left
\* unloaded when the load was what failed.
C27_DetectNeverRaises ==
    SemDetectCall =>
        /\ call.ret.classification \in
               {"unknown", "error", "ai", "likely-ai", "mixed", "likely-human", "human"}
        /\ IsBlank(call.text) =>
               /\ IsNeutralDict(call.ret, "unknown")
               /\ semLoaded = call.loadedBefore
        /\ (call.caught # "none") => IsNeutralDict(call.ret, "error")
        /\ (call.caught = "LoadError") => ~semLoaded
        /\ (~IsBlank(call.text) /\ call.caught = "none") => call.computed

\* C27 witness: a text of blanks was given to the unloaded detector, which
\* answered 'unknown' and stayed unloaded
C27_Witness ==
    /\ SemDetectCall
    /\ call.text = [pad |-> TRUE, toks |-> << >>]
    /\ ~call.loadedBefore
    /\ ~semLoaded
    /\ IsNeutralDict(call.ret, "unknown")

\* C27 second case: the load failed, detect answered 'error' and the
\* detector is unloaded
C27_LoadFailureSeen ==
    /\ SemDetectCall
    /\ call.caught = "LoadError"
    /\ IsNeutralDict(call.ret, "error")
    /\ ~semLoaded

\* the /analyze request that has just been answered with a response body
AnalyzeOk == AnalyzeCall /\ call.status = 200

\* the sentences of the request text, as the text processor returns them
SegmentedSentences(request) ==
    TextProcessor_split_into_sentences(preprocess(request.text)).val

\* C28: in a successful analyze response total_sentences is the number of
\* segmented sentences and is at least 1, the per-sentence results are in
\* the order of the sentences, and human_count + suspicious_count + ai_count
\* = total_sentences: every sentence is counted in exactly one class.
C28_SummaryConsistent ==
    AnalyzeOk =>
        LET results == call.response.sentences
            stats == call.response.overall_stats
            sentences == SegmentedSentences(call.request)
        IN  /\ stats.total_sentences = Len(sentences)
            /\ stats.total_sentences >= 1
            /\ Len(results) = Len(sentences)
            /\ \A i \in 1..Len(results) : results[i].text = sentences[i]
            /\ stats.human_count + stats.suspicious_count + stats.ai_count
                   = stats.total_sentences
            /\ \A i \in 1..Len(results) :
                   results[i].classification \in {"human", "suspicious", "ai"}

\* C28 witness: two different sentences were analysed, one counted as ai
\* and one as human
C28_Witness ==
    /\ AnalyzeOk
    /\ call.response.overall_stats.total_sentences = 2
    /\ call.response.sentences[1].text # call.response.sentences[2].text
    /\ call.response.overall_stats.ai_count = 1
    /\ call.response.overall_stats.human_count = 1

\* one of the two chunkers returned its rows
ChunkerReturned ==
    /\ call.op \in {"chunk_encode", "classifier_chunk_encode"}
    /\ ~call.raised

ClassifierChunked ==
    /\ call.op = "classifier_chunk_encode"
    /\ ~call.raised

\* what the loaded detector returns for the same text and num_chunks
DetectorRows ==
    sentence_aware_chunk_encode(TRUE, "model", call.text, call.num_chunks,
        [loadOk |-> TRUE, encodeOk |-> TRUE, stdOk |-> TRUE, std |-> 0]).out

\* C30 (as claimed): for every text and num_chunks the standalone
\* sentence_aware_chunk_encode and the one of the detector return the same
\* number of embedding vectors, built from the same chunks, also when the
\* text has fewer sentences than num_chunks.
C30_SameRows ==
    ClassifierChunked =>
        /\ call.chunks = DetectorRows.chunks
        /\ Len(call.rows) = Len(DetectorRows.rows)
        /\ call.rows = DetectorRows.rows

====
